---- MODULE Spec2Model ----
(***************************************************************************)
(* Convolutional coder / Viterbi decoder of convcode.c, and the callers    *)
(* (the test harness of the same file) that drive it.                      *)
(*                                                                         *)
(* C integers are naturals; a shift is a multiplication or division by a   *)
(* power of two, an OR of values that share no bit is a sum, a narrowing   *)
(* store is a remainder (unsigned char: % 256, convcode_state: % 65536).   *)
(* An unsigned int that can come near UINT_MAX (a path value) is a pair    *)
(* <<hi, lo>> of 16-bit halves, so that the arithmetic is exact modulo     *)
(* 2^32.                                                                   *)
(*                                                                         *)
(* A C array is a function on indices from 0, built one store at a time    *)
(* (Store); an array nothing wrote yet has no cell.  A caller's bit string *)
(* (the "0101" strings of the harness) is a sequence of 0/1; a byte buffer *)
(* is a sequence of bytes, byte i of the C buffer being element i+1.       *)
(*                                                                         *)
(* An operator that models a function returns a record of what the         *)
(* function changed: the structure (ce), the callback's state (cb), the    *)
(* return value (rv).                                                      *)
(***************************************************************************)
EXTENDS Integers, Sequences, FiniteSets, TLC

(* ------------------------------------------------------------------ *)
(* Integer helpers: the C operators the source uses.                    *)
(* ------------------------------------------------------------------ *)

RECURSIVE Pow2(_)
Pow2(n) == IF n <= 0 THEN 1 ELSE 2 * Pow2(n - 1)

Shl(v, n) == v * Pow2(n)

Shr(v, n) == v \div Pow2(n)

RECURSIVE BitAnd(_, _)
BitAnd(a, b) ==
    IF a = 0 \/ b = 0 THEN 0
    ELSE (IF a % 2 = 1 /\ b % 2 = 1 THEN 1 ELSE 0) + 2 * BitAnd(a \div 2, b \div 2)

RECURSIVE BitOr(_, _)
BitOr(a, b) ==
    IF a = 0 THEN b
    ELSE IF b = 0 THEN a
    ELSE (IF a % 2 = 1 \/ b % 2 = 1 THEN 1 ELSE 0) + 2 * BitOr(a \div 2, b \div 2)

RECURSIVE BitXor(_, _)
BitXor(a, b) ==
    IF a = 0 THEN b
    ELSE IF b = 0 THEN a
    ELSE (IF a % 2 # b % 2 THEN 1 ELSE 0) + 2 * BitXor(a \div 2, b \div 2)

(* unsigned int arithmetic modulo 2^32 on <<hi, lo>> pairs *)
U32(n) == <<n \div 65536, n % 65536>>

U32Add(a, b) ==
    <<(a[1] + b[1] + (a[2] + b[2]) \div 65536) % 65536, (a[2] + b[2]) % 65536>>

U32Sub(a, b) ==
    <<(a[1] - b[1] - (IF a[2] < b[2] THEN 1 ELSE 0) + 65536) % 65536,
      (a[2] - b[2] + 65536) % 65536>>

U32Lt(a, b) == a[1] < b[1] \/ (a[1] = b[1] /\ a[2] < b[2])

(* a C array: the array arr with the value v stored at index idx *)
Store(arr, idx, v) == (idx :> v) @@ arr

(* an array that malloc returned and nothing wrote yet: no cell has a value *)
Unwritten == <<>>

(* ------------------------------------------------------------------ *)
(* Program constants.                                                   *)
(* ------------------------------------------------------------------ *)

CONVCODE_MAX_POLYNOMIALS == 16

CONVCODE_MAX_K == 16

CONVCODE_DEFAULT_START_STATE == 0

(* UINT_MAX / 2 = 0x7fffffff *)
CONVCODE_DEFAULT_INIT_VAL == <<32767, 65535>>

(* the element size of the trellis: sizeof(convcode_state), a uint16_t *)
SizeofConvcodeState == 2

(* ------------------------------------------------------------------ *)
(* The caller's side of the byte buffers (the harness packs its bit     *)
(* strings low bit first).                                              *)
(* ------------------------------------------------------------------ *)

RECURSIVE BitsToInt(_)
BitsToInt(bs) == IF bs = <<>> THEN 0 ELSE bs[1] + 2 * BitsToInt(Tail(bs))

RECURSIVE IntToBits(_, _)
IntToBits(v, n) == IF n = 0 THEN <<>> ELSE <<v % 2>> \o IntToBits(v \div 2, n - 1)

RECURSIVE PackBits(_)
PackBits(bs) ==
    IF bs = <<>> THEN <<>>
    ELSE IF Len(bs) <= 8 THEN <<BitsToInt(bs)>>
    ELSE <<BitsToInt(SubSeq(bs, 1, 8))>> \o PackBits(SubSeq(bs, 9, Len(bs)))

(* the bits a callback log carries, in stream order: handle_test_output *)
RECURSIVE LogBits(_)
LogBits(log) ==
    IF log = <<>> THEN <<>>
    ELSE IntToBits(log[1][1], log[1][2]) \o LogBits(Tail(log))

(* bit i of a byte buffer, as run_test reads its block buffers *)
BufBit(bytes, i) == Shr(bytes[(i \div 8) + 1], i % 8) % 2

(* the first n bits of a byte buffer *)
RECURSIVE BufBits(_, _)
BufBits(bytes, n) ==
    IF n = 0 THEN <<>> ELSE Append(BufBits(bytes, n - 1), BufBit(bytes, n - 1))

(* ------------------------------------------------------------------ *)
(* Setup: polynomials, state tables.                                    *)
(* ------------------------------------------------------------------ *)

RECURSIVE reverse_bits_loop(_, _, _)
reverse_bits_loop(n, val, rv) ==
    IF n = 0 THEN rv
    ELSE reverse_bits_loop(n - 1, val \div 2, 2 * rv + (val % 2))

(* fault injection: the polynomial taken as the caller wrote it, unreversed *)
reverse_bits_none(k, val) == val

reverse_bits(k, val) == reverse_bits_loop(k, val, 0)

(* fault injection: only the lowest bit of the value is looked at *)
num_bits_is_odd_low(v) == v % 2

RECURSIVE num_bits_is_odd(_)
num_bits_is_odd(v) ==
    IF v = 0 THEN 0
    ELSE IF v % 2 = 1 THEN 1 - num_bits_is_odd(v \div 2)
    ELSE num_bits_is_odd(v \div 2)

(* struct convcode_outdata after memset / reinit *)
OutdataZero ==
    [out_bits |-> 0, out_bit_pos |-> 0, output_symbol_size |-> FALSE,
     total_out_bits |-> 0]

(* ce->polys[i] = reverse_bits(k, polynomials[i]), i < num_polys *)
RECURSIVE setup_polys(_, _, _)
setup_polys(k, polynomials, n) ==
    IF n = 0 THEN Unwritten
    ELSE Store(setup_polys(k, polynomials, n - 1), n - 1,
               reverse_bits(k, polynomials[n]))

(* leftover_uncertainty after the memset *)
RECURSIVE ZeroArray(_)
ZeroArray(n) == IF n = 0 THEN Unwritten ELSE Store(ZeroArray(n - 1), n - 1, 0)

(* the null pointer *)
NULL == [null |-> TRUE]

(* 1 << (k - 1) with k == 0: the shift count is UINT_MAX, the result is not
   defined; it stands here until the caller of setup_convcode1 settles it *)
UndefinedShift == [undefined |-> "1 << UINT_MAX"]

(* what a build leaves in num_states then, as 32-bit values: 1 << 31 where
   the count is taken modulo 32, 0 where every bit is shifted out *)
UndefinedShiftOutcomes == {<<32768, 0>>, <<0, 0>>}

(* The fields setup_convcode1 sets; the tables are those of a structure that
   alloc_convcode has not filled yet, the decoder's buffers are null after
   the memset. *)
setup_convcode1(k, polynomials, num_polynomials, max_decode_len_bits, do_tail, recursive) ==
    IF num_polynomials < 1 \/ num_polynomials > CONVCODE_MAX_POLYNOMIALS
    THEN [rv |-> 1]
    ELSE IF k > CONVCODE_MAX_K
    THEN [rv |-> 1]
    ELSE
      [rv |-> 0,
       ce |-> [enc_out |-> OutdataZero,
               dec_out |-> OutdataZero,
               k |-> k,
               num_states |-> IF k = 0 THEN UndefinedShift ELSE Shl(1, k - 1),
               do_tail |-> do_tail,
               recursive |-> recursive,
               uncertainty_100 |-> 100,
               num_polys |-> num_polynomials,
               polys |-> setup_polys(k, polynomials, num_polynomials),
               trellis_size |-> IF max_decode_len_bits > 0
                                THEN max_decode_len_bits + k * num_polynomials
                                ELSE 0,
               enc_state |-> 0,
               ctrellis |-> 0,
               leftover_bits |-> 0,
               leftover_bits_data |-> 0,
               leftover_uncertainty |-> ZeroArray(CONVCODE_MAX_POLYNOMIALS),
               convert |-> <<Unwritten, Unwritten>>,
               next_state |-> <<Unwritten, Unwritten>>,
               trellis |-> NULL,
               curr_path_values |-> NULL,
               next_path_values |-> NULL]]

(* the OR over the polynomials j..num_polys-1 of parity(reg & polys[j]) << j *)
RECURSIVE PolyOutputs(_, _, _)
PolyOutputs(ce, reg, j) ==
    IF j >= ce.num_polys THEN 0
    ELSE Shl(num_bits_is_odd(BitAnd(reg, ce.polys[j])), j)
         + PolyOutputs(ce, reg, j + 1)

(* fault injection: the input bit itself is shifted in, no feedback *)
bval_input(ce, i, bit) == bit

(* the recursive bit calculated from the feedback and the input *)
bval(ce, i, bit) == num_bits_is_odd(BitAnd(2 * i + bit, ce.polys[0]))

setup_convert(ce, bit, i) ==
    IF ~ce.recursive
    THEN PolyOutputs(ce, 2 * i + bit, 0)
    ELSE bit + PolyOutputs(ce, 2 * i + bval(ce, i, bit), 1)

(* fault injection: the new bit is shifted in at the high end *)
setup_next_state_high(ce, bit, i) ==
    (i \div 2) + bit * (ce.num_states \div 2)

setup_next_state(ce, bit, i) ==
    IF ~ce.recursive
    THEN BitAnd(2 * i + bit, ce.num_states - 1)
    ELSE BitAnd(2 * i + bval(ce, i, bit), ce.num_states - 1)

(* the loop over the states; convert[b] and next_state[b] are the elements
   b + 1 of the pairs *)
RECURSIVE setup_convcode2_loop(_, _)
setup_convcode2_loop(ce, i) ==
    IF i >= ce.num_states THEN ce
    ELSE setup_convcode2_loop(
             [ce EXCEPT
                !.convert[1] = Store(@, i, setup_convert(ce, 0, i)),
                !.convert[2] = Store(@, i, setup_convert(ce, 1, i)),
                !.next_state[1] = Store(@, i, setup_next_state(ce, 0, i)),
                !.next_state[2] = Store(@, i, setup_next_state(ce, 1, i))],
             i + 1)

setup_convcode2(ce) == setup_convcode2_loop(ce, 0)

(* ------------------------------------------------------------------ *)
(* Reinit.                                                              *)
(* ------------------------------------------------------------------ *)

(* fault injection: only the state is set, the output accumulator is kept *)
reinit_convencode_state_only(ce, start_state) ==
    [ce EXCEPT !.enc_state = start_state % 65536]

(* fault injection: the decoder's column count and leftover bits are reset
   along with the encoder *)
reinit_convencode_whole(ce, start_state) ==
    [ce EXCEPT !.enc_state = start_state % 65536,
               !.enc_out.out_bits = 0,
               !.enc_out.out_bit_pos = 0,
               !.enc_out.total_out_bits = 0,
               !.ctrellis = 0,
               !.leftover_bits = 0]

reinit_convencode(ce, start_state) ==
    [ce EXCEPT !.enc_state = start_state % 65536,
               !.enc_out.out_bits = 0,
               !.enc_out.out_bit_pos = 0,
               !.enc_out.total_out_bits = 0]

(* fault injection: every state starts at 0, as the start state does *)
reinit_path_values_flat(arr, n, start_state, init_other_states) ==
    [i \in 0..(n - 1) |-> U32(0)]

(* fault injection: the other states are given UINT_MAX, whatever the caller
   asked for *)
reinit_path_values_top(arr, n, start_state, init_other_states) ==
    [i \in 0..(n - 1) |-> IF i = start_state THEN U32(0) ELSE <<65535, 65535>>]

(* curr_path_values[i] = init_other_states for every i but start_state *)
RECURSIVE reinit_path_values(_, _, _, _)
reinit_path_values(arr, n, start_state, init_other_states) ==
    IF n = 0 THEN arr
    ELSE Store(reinit_path_values(arr, n - 1, start_state, init_other_states),
               n - 1,
               IF n - 1 = start_state THEN U32(0) ELSE init_other_states)

(* fault injection: the session is reset before start_state is checked *)
reinit_convdecode_late(ce, start_state, init_other_states) ==
    [rv |-> IF start_state >= ce.num_states THEN 1 ELSE 0,
     fault |-> FALSE,
     ce |-> [ce EXCEPT
               !.dec_out.out_bits = 0,
               !.dec_out.out_bit_pos = 0,
               !.dec_out.total_out_bits = 0,
               !.curr_path_values =
                   IF start_state >= ce.num_states THEN @
                   ELSE reinit_path_values(@, ce.num_states, start_state,
                                           init_other_states),
               !.ctrellis = 0,
               !.leftover_bits = 0]]

(* fault: curr_path_values is null, the stores go through a null pointer *)
reinit_convdecode(ce, start_state, init_other_states) ==
    IF start_state >= ce.num_states
    THEN [rv |-> 1, ce |-> ce, fault |-> FALSE]
    ELSE IF ce.curr_path_values = NULL
    THEN [rv |-> 0, fault |-> TRUE,
          ce |-> [ce EXCEPT !.dec_out.out_bits = 0,
                            !.dec_out.out_bit_pos = 0,
                            !.dec_out.total_out_bits = 0]]
    ELSE [rv |-> 0,
          fault |-> FALSE,
          ce |-> [ce EXCEPT
                    !.dec_out.out_bits = 0,
                    !.dec_out.out_bit_pos = 0,
                    !.dec_out.total_out_bits = 0,
                    !.curr_path_values =
                        reinit_path_values(@, ce.num_states, start_state,
                                           init_other_states),
                    !.ctrellis = 0,
                    !.leftover_bits = 0]]

(* the structure it leaves, and whether reinit_convdecode faulted; the value
   reinit_convdecode returns is dropped *)
reinit_convcode(ce) ==
    reinit_convdecode(reinit_convencode(ce, CONVCODE_DEFAULT_START_STATE),
                      CONVCODE_DEFAULT_START_STATE,
                      CONVCODE_DEFAULT_INIT_VAL)

(* the mallocs of alloc_convcode, none of them failing: the decoder's
   buffers exist only with max_decode_len_bits > 0 *)
alloc_buffers(ce, max_decode_len_bits) ==
    IF max_decode_len_bits > 0
    THEN [ce EXCEPT !.trellis = Unwritten,
                    !.curr_path_values = Unwritten,
                    !.next_path_values = Unwritten]
    ELSE ce

(* alloc_convcode with k >= 1 and no allocation failure; rv # 0 stands
   for the NULL it returns *)
alloc_convcode(k, polynomials, num_polynomials, max_decode_len_bits, do_tail, recursive) ==
    LET inited(r) == [rv |-> 0, ce |-> r.ce, fault |-> r.fault]
        filled(s1) ==
            IF s1.rv # 0 THEN [rv |-> 1]
            ELSE inited(reinit_convcode(
                     setup_convcode2(alloc_buffers(s1.ce, max_decode_len_bits))))
    IN  filled(setup_convcode1(k, polynomials, num_polynomials,
                               max_decode_len_bits, do_tail, recursive))

set_encode_output_per_symbol(ce, val) ==
    [ce EXCEPT !.enc_out.output_symbol_size = val]

(* ------------------------------------------------------------------ *)
(* The output callback (convcode_output): the caller's.  It records     *)
(* each invocation <<byte, nbits>> and returns nonzero on invocation    *)
(* number fail_at (never, when fail_at = 0); calls counts the            *)
(* invocations.                                                         *)
(* ------------------------------------------------------------------ *)

(* the nonzero value the failing callback returns *)
SinkErr == 5

NewSink(fail_at) == [log |-> <<>>, fail_at |-> fail_at]

output(cb, byte, nbits) ==
    [cb |-> [cb EXCEPT !.log = Append(@, <<byte % 256, nbits>>)],
     rv |-> IF Len(cb.log) + 1 = cb.fail_at THEN SinkErr ELSE 0]

(* ------------------------------------------------------------------ *)
(* Encoder.                                                             *)
(* ------------------------------------------------------------------ *)

(* fault injection: after a byte was sent, out_bits is given the symbol as
   it was, not what is left of it *)
RECURSIVE output_bits_loop_stale(_, _, _, _)
output_bits_loop_stale(of, cb, bits, len) ==
    IF of.out_bit_pos + len >= 8
    THEN LET used == 8 - of.out_bit_pos
             sent(r) ==
                 IF r.rv # 0
                 THEN [of |-> of, cb |-> r.cb, rv |-> r.rv]
                 ELSE output_bits_loop_stale(
                          [of EXCEPT !.total_out_bits = @ + used,
                                     !.out_bit_pos = 0,
                                     !.out_bits = bits % 256],
                          r.cb, Shr(bits, used), len - used)
         IN  sent(output(cb, of.out_bits, 8))
    ELSE [of |-> [of EXCEPT !.out_bit_pos = @ + len,
                            !.total_out_bits = @ + len],
          cb |-> cb, rv |-> 0]

(* the while loop of output_bits: of is the outdata *)
RECURSIVE output_bits_loop(_, _, _, _)
output_bits_loop(of, cb, bits, len) ==
    IF of.out_bit_pos + len >= 8
    THEN LET used == 8 - of.out_bit_pos
             sent(r) ==
                 IF r.rv # 0
                 THEN [of |-> of, cb |-> r.cb, rv |-> r.rv]
                 ELSE output_bits_loop(
                          [of EXCEPT !.total_out_bits = @ + used,
                                     !.out_bit_pos = 0,
                                     !.out_bits = Shr(bits, used) % 256],
                          r.cb, Shr(bits, used), len - used)
         IN  sent(output(cb, of.out_bits, 8))
    ELSE [of |-> [of EXCEPT !.out_bit_pos = @ + len,
                            !.total_out_bits = @ + len],
          cb |-> cb, rv |-> 0]

(* returns the outdata, the callback's state and the return value *)
output_bits(of, cb, bits, len) ==
    IF of.output_symbol_size
    THEN LET sent(r) == [of |-> of, cb |-> r.cb, rv |-> r.rv]
         IN  sent(output(cb, bits, len))
    ELSE output_bits_loop(
             [of EXCEPT !.out_bits = BitOr(@, Shl(bits, of.out_bit_pos)) % 256],
             cb, bits, len)

(* fault injection: the symbol is put out and the state is left as it was *)
encode_bit_stay(ce, cb, bit) ==
    LET put(r) == [ce |-> [ce EXCEPT !.enc_out = r.of], cb |-> r.cb, rv |-> r.rv]
    IN  put(output_bits(ce.enc_out, cb, ce.convert[bit + 1][ce.enc_state],
                        ce.num_polys))

encode_bit(ce, cb, bit) ==
    LET state == ce.enc_state
        put(r) == [ce |-> [ce EXCEPT !.enc_state = ce.next_state[bit + 1][state],
                                     !.enc_out = r.of],
                   cb |-> r.cb, rv |-> r.rv]
    IN  put(output_bits(ce.enc_out, cb, ce.convert[bit + 1][state], ce.num_polys))

(* bit number i (from 0) of the caller's buffer: byte >>= 1 per bit *)
RECURSIVE convencode_data_loop(_, _, _, _, _)
convencode_data_loop(ce, cb, bytes, i, nbits) ==
    IF i >= nbits THEN [ce |-> ce, cb |-> cb, rv |-> 0]
    ELSE LET next(r) ==
                 IF r.rv # 0 THEN r
                 ELSE convencode_data_loop(r.ce, r.cb, bytes, i + 1, nbits)
         IN  next(encode_bit(ce, cb, BufBit(bytes, i)))

(* fault injection: every call starts from state 0 *)
convencode_data_restart(ce, cb, bytes, nbits) ==
    convencode_data_loop([ce EXCEPT !.enc_state = 0], cb, bytes, 0, nbits)

convencode_data(ce, cb, bytes, nbits) ==
    convencode_data_loop(ce, cb, bytes, 0, nbits)

(* the tail of convencode_finish: k - 1 zero bits *)
RECURSIVE convencode_tail(_, _, _)
convencode_tail(ce, cb, i) ==
    IF i >= ce.k - 1 THEN [ce |-> ce, cb |-> cb, rv |-> 0]
    ELSE LET next(r) ==
                 IF r.rv # 0 THEN r ELSE convencode_tail(r.ce, r.cb, i + 1)
         IN  next(encode_bit(ce, cb, 0))

(* what an output parameter holds when the call returned before storing it *)
Unset == 0 - 1

UnsetU32 == <<Unset, Unset>>

(* total_out_bits is the value stored through the pointer; the value the
   callback returns for the last, partial byte is not looked at *)
convencode_finish(ce, cb) ==
    LET flush(t) ==
            IF t.rv # 0
            THEN [ce |-> t.ce, cb |-> t.cb, rv |-> t.rv, total_out_bits |-> Unset]
            ELSE [ce |-> t.ce,
                  cb |-> IF t.ce.enc_out.out_bit_pos > 0
                         THEN output(t.cb, t.ce.enc_out.out_bits,
                                     t.ce.enc_out.out_bit_pos).cb
                         ELSE t.cb,
                  rv |-> 0,
                  total_out_bits |-> t.ce.enc_out.total_out_bits]
    IN  flush(IF ce.do_tail THEN convencode_tail(ce, cb, 0)
              ELSE [ce |-> ce, cb |-> cb, rv |-> 0])

(* ------------------------------------------------------------------ *)
(* convencode_block: writes the caller's buffer, no callback.           *)
(* ------------------------------------------------------------------ *)

(* outbytes[idx] |= v *)
OrByte(outbytes, idx, v) ==
    [outbytes EXCEPT ![idx + 1] = BitOr(@, v) % 256]

(* the loop that spills a symbol over the byte boundaries; outbytes is the
   whole buffer and pos the index *outbytes points at *)
(* fault injection: a symbol that does not fit into the current byte loses
   the bits beyond it *)
block_bit_loop_nospill(outbytes, pos, outbitpos, outbits, bits_left, nbytebits) ==
    [outbytes |-> OrByte(outbytes, pos, Shl(outbits, outbitpos)),
     pos |-> IF outbitpos + bits_left >= 8 THEN pos + 1 ELSE pos,
     outbitpos |-> (outbitpos + bits_left) % 8]

RECURSIVE block_bit_loop(_, _, _, _, _, _)
block_bit_loop(outbytes, pos, outbitpos, outbits, bits_left, nbytebits) ==
    IF bits_left > nbytebits
    THEN block_bit_loop(
             OrByte(outbytes, pos,
                    Shl(BitAnd(outbits, Shl(1, nbytebits) - 1), outbitpos)),
             pos + 1, 0, Shr(outbits, nbytebits), bits_left - nbytebits, 8)
    ELSE [outbytes |-> OrByte(outbytes, pos, Shl(outbits, outbitpos)),
          pos |-> IF outbitpos + bits_left >= 8 THEN pos + 1 ELSE pos,
          outbitpos |-> IF outbitpos + bits_left >= 8 THEN 0
                        ELSE outbitpos + bits_left]

(* b: [ce, outbytes, pos, outbitpos] *)
convencode_block_bit(b, bit) ==
    LET state == b.ce.enc_state
        put(r) == [ce |-> [b.ce EXCEPT !.enc_state = b.ce.next_state[bit + 1][state]],
                   outbytes |-> r.outbytes, pos |-> r.pos,
                   outbitpos |-> r.outbitpos]
    IN  put(block_bit_loop(b.outbytes, b.pos, b.outbitpos,
                           b.ce.convert[bit + 1][state], b.ce.num_polys,
                           8 - b.outbitpos))

RECURSIVE convencode_block_data(_, _, _, _)
convencode_block_data(b, bytes, i, nbits) ==
    IF i >= nbits THEN b
    ELSE convencode_block_data(convencode_block_bit(b, BufBit(bytes, i)),
                               bytes, i + 1, nbits)

RECURSIVE convencode_block_tail(_, _)
convencode_block_tail(b, i) ==
    IF i >= b.ce.k - 1 THEN b
    ELSE convencode_block_tail(convencode_block_bit(b, 0), i + 1)

convencode_block(ce, bytes, nbits, outbytes) ==
    LET tail(d) == IF ce.do_tail THEN convencode_block_tail(d, 0) ELSE d
    IN  tail(convencode_block_data(
                 [ce |-> ce, outbytes |-> outbytes, pos |-> 0, outbitpos |-> 0],
                 bytes, 0, nbits))

(* ------------------------------------------------------------------ *)
(* Decoder.                                                             *)
(* ------------------------------------------------------------------ *)

RECURSIVE num_bits_set(_)
num_bits_set(v) == IF v = 0 THEN 0 ELSE (v % 2) + num_bits_set(v \div 2)

(* A pointer to reliabilities, a pointer to uint8_t: NULL, or an array and an
   offset into it. *)
Ptr(a) == [null |-> FALSE, at |-> a, off |-> 0]

(* uncertainty + n *)
PtrAdd(p, n) == IF p.null THEN p ELSE [p EXCEPT !.off = @ + n]

(* uncertainty[i] *)
Deref(p, i) == p.at[p.off + i]

(* fault injection: the reliabilities are not looked at, every differing bit
   counts uncertainty_100 *)
hamming_distance_loop_hard(ce, v1, v2, uncertainty, i, rv) ==
    U32(ce.uncertainty_100 * num_bits_set(BitXor(v1, v2) % Pow2(ce.num_polys)))

RECURSIVE hamming_distance_loop(_, _, _, _, _, _)
hamming_distance_loop(ce, v1, v2, uncertainty, i, rv) ==
    IF i >= ce.num_polys THEN rv
    ELSE hamming_distance_loop(ce, v1 \div 2, v2 \div 2, uncertainty, i + 1,
             IF v1 % 2 = v2 % 2
             THEN U32Add(rv, U32(Deref(uncertainty, i)))
             ELSE U32Sub(U32Add(rv, U32(ce.uncertainty_100)),
                         U32(Deref(uncertainty, i))))

(* fault injection: the agreeing bits add what the differing bits should
   and the differing bits what the agreeing bits should *)
hamming_distance_swapped(ce, v1, v2, uncertainty) ==
    IF uncertainty.null
    THEN U32(num_bits_set(BitXor(v1, v2)))
    ELSE hamming_distance_loop(ce, v1, BitXor(v2, Pow2(ce.num_polys) - 1),
                               uncertainty, 0, U32(0))

hamming_distance(ce, v1, v2, uncertainty) ==
    IF uncertainty.null
    THEN U32(num_bits_set(BitXor(v1, v2)))
    ELSE hamming_distance_loop(ce, v1, v2, uncertainty, 0, U32(0))

(* fault injection: the bit of a transition is taken to be 0 *)
get_prev_bit_zero(ce, pstate, cstate) == 0

get_prev_bit(ce, pstate, cstate) ==
    IF ~ce.recursive THEN cstate % 2
    ELSE IF ce.next_state[1][pstate] = cstate THEN 0 ELSE 1

(* the index of a column's first cell in the array ce->trellis *)
get_trellis_column(ce, column) == column * ce.num_states * SizeofConvcodeState

trellis_entry(ce, column, row) == get_trellis_column(ce, column) + row

(* fault injection: no comparison, the first predecessor is always kept *)
acs_first(ce, i, bits, uncertainty) ==
    [pstate |-> i \div 2,
     dist |-> U32Add(ce.curr_path_values[i \div 2],
                     hamming_distance(ce,
                         ce.convert[get_prev_bit(ce, i \div 2, i) + 1][i \div 2],
                         bits, uncertainty))]

(* fault injection: on equal distances the second predecessor is kept *)
acs_tie(ce, i, bits, uncertainty) ==
    LET sel(pstate1, pstate2, dist1, dist2) ==
            IF U32Lt(dist1, dist2)
            THEN [pstate |-> pstate1, dist |-> dist1]
            ELSE [pstate |-> pstate2, dist |-> dist2]
        from(pstate1, pstate2) ==
            sel(pstate1, pstate2,
                U32Add(ce.curr_path_values[pstate1],
                       hamming_distance(ce,
                           ce.convert[get_prev_bit(ce, pstate1, i) + 1][pstate1],
                           bits, uncertainty)),
                U32Add(ce.curr_path_values[pstate2],
                       hamming_distance(ce,
                           ce.convert[get_prev_bit(ce, pstate2, i) + 1][pstate2],
                           bits, uncertainty)))
    IN  from(i \div 2, BitOr(i \div 2, Shl(1, ce.k - 2)) % 65536)

(* the body of the loop of decode_bits for state i: the predecessor kept and
   its distance *)
acs(ce, i, bits, uncertainty) ==
    LET sel(pstate1, pstate2, dist1, dist2) ==
            IF U32Lt(dist2, dist1)
            THEN [pstate |-> pstate2, dist |-> dist2]
            ELSE [pstate |-> pstate1, dist |-> dist1]
        from(pstate1, pstate2) ==
            sel(pstate1, pstate2,
                U32Add(ce.curr_path_values[pstate1],
                       hamming_distance(ce,
                           ce.convert[get_prev_bit(ce, pstate1, i) + 1][pstate1],
                           bits, uncertainty)),
                U32Add(ce.curr_path_values[pstate2],
                       hamming_distance(ce,
                           ce.convert[get_prev_bit(ce, pstate2, i) + 1][pstate2],
                           bits, uncertainty)))
    IN  from(i \div 2, BitOr(i \div 2, Shl(1, ce.k - 2)) % 65536)

(* the loop over the states: trellis_entry(ce, ctrellis, i) and nextp[i] *)
RECURSIVE decode_bits_loop(_, _, _, _)
decode_bits_loop(ce, i, bits, uncertainty) ==
    IF i >= ce.num_states THEN ce
    ELSE LET put(a) ==
                 decode_bits_loop(
                     [ce EXCEPT
                        !.trellis = Store(@, trellis_entry(ce, ce.ctrellis, i),
                                          a.pstate),
                        !.next_path_values = Store(@, i, a.dist)],
                     i + 1, bits, uncertainty)
         IN  put(acs(ce, i, bits, uncertainty))

(* fault injection: the capacity check keeps k symbols of room, not one *)
decode_bits_short(ce, bits, uncertainty) ==
    IF ce.ctrellis + ce.k * ce.num_polys > ce.trellis_size
    THEN [rv |-> 1, ce |-> ce]
    ELSE LET swap(c) ==
                 [rv |-> 0,
                  ce |-> [c EXCEPT !.ctrellis = @ + 1,
                                   !.next_path_values = c.curr_path_values,
                                   !.curr_path_values = c.next_path_values]]
         IN  swap(decode_bits_loop(ce, 0, bits, uncertainty))

(* fault injection: the column is written before the room is checked *)
decode_bits_dirty(ce, bits, uncertainty) ==
    IF ce.ctrellis + ce.num_polys > ce.trellis_size
    THEN [rv |-> 1, ce |-> decode_bits_loop(ce, 0, bits, uncertainty)]
    ELSE LET swap(c) ==
                 [rv |-> 0,
                  ce |-> [c EXCEPT !.ctrellis = @ + 1,
                                   !.next_path_values = c.curr_path_values,
                                   !.curr_path_values = c.next_path_values]]
         IN  swap(decode_bits_loop(ce, 0, bits, uncertainty))

decode_bits(ce, bits, uncertainty) ==
    IF ce.ctrellis + ce.num_polys > ce.trellis_size
    THEN [rv |-> 1, ce |-> ce]
    ELSE LET swap(c) ==
                 [rv |-> 0,
                  ce |-> [c EXCEPT !.ctrellis = @ + 1,
                                   !.next_path_values = c.curr_path_values,
                                   !.curr_path_values = c.next_path_values]]
         IN  swap(decode_bits_loop(ce, 0, bits, uncertainty))

(* idx is pos with the increments of the pointer bytes added *)
RECURSIVE extract_bits_loop(_, _, _, _, _, _, _)
extract_bits_loop(bytes, idx, bit, byte_avail, bits_left, opos, v) ==
    IF byte_avail <= bits_left
    THEN extract_bits_loop(bytes, idx + 1, 0, 8, bits_left - byte_avail,
                           opos + byte_avail,
                           BitOr(v, Shl(Shr(bytes[idx + 1], bit), opos)))
    ELSE IF bits_left > 0
    THEN BitOr(v, Shl(Shr(bytes[idx + 1], bit), opos))
    ELSE v

extract_bits(bytes, curr, nbits) ==
    BitAnd(extract_bits_loop(bytes, curr \div 8, curr % 8, 8 - (curr % 8),
                             nbits, 0, 0),
           Shl(1, nbits) - 1)

(* leftover_uncertainty[from + i] = uncertainty[off + i], i < n *)
RECURSIVE stash_uncertainty(_, _, _, _, _)
stash_uncertainty(lu, from, uncertainty, off, n) ==
    IF uncertainty.null \/ n = 0 THEN lu
    ELSE Store(stash_uncertainty(lu, from, uncertainty, off, n - 1),
               from + n - 1, Deref(uncertainty, off + n - 1))

(* the while loop of convdecode_data and the stash of what is left *)
RECURSIVE convdecode_data_loop(_, _, _, _, _)
convdecode_data_loop(ce, bytes, curr_bit, nbits, uncertainty) ==
    IF nbits >= ce.num_polys
    THEN LET next(r) ==
                 IF r.rv # 0 THEN r
                 ELSE convdecode_data_loop(r.ce, bytes, curr_bit + ce.num_polys,
                                           nbits - ce.num_polys, uncertainty)
         IN  next(decode_bits(ce, extract_bits(bytes, curr_bit, ce.num_polys),
                              PtrAdd(uncertainty, curr_bit)))
    ELSE [rv |-> 0,
          ce |-> IF nbits > 0
                 THEN [ce EXCEPT
                         !.leftover_bits = nbits,
                         !.leftover_bits_data =
                             BitAnd(Shr(bytes[(curr_bit \div 8) + 1], curr_bit % 8),
                                    Shl(1, nbits) - 1),
                         !.leftover_uncertainty =
                             stash_uncertainty(@, 0, uncertainty, curr_bit, nbits)]
                 ELSE [ce EXCEPT !.leftover_bits = 0]]

convdecode_data(ce, bytes, nbits, uncertainty) ==
    IF ce.leftover_bits > 0
    THEN IF nbits + ce.leftover_bits < ce.num_polys
         THEN (* not enough bits for a full symbol, just store these *)
              [rv |-> 0,
               ce |-> [ce EXCEPT
                         !.leftover_uncertainty =
                             stash_uncertainty(@, ce.leftover_bits, uncertainty,
                                               0, nbits),
                         !.leftover_bits = @ + nbits,
                         !.leftover_bits_data =
                             BitAnd(BitOr(@, Shl(bytes[1], ce.leftover_bits))
                                        % 65536,
                                    Shl(1, ce.leftover_bits + nbits) - 1)]]
         ELSE LET extract_size == ce.num_polys - ce.leftover_bits
                  (* the return value of this decode_bits is not looked at *)
                  rest(r) ==
                      convdecode_data_loop([r.ce EXCEPT !.leftover_bits = 0],
                                           bytes, extract_size,
                                           nbits - extract_size, uncertainty)
                  first(c1) ==
                      rest(decode_bits(c1, c1.leftover_bits_data,
                                       IF uncertainty.null THEN NULL
                                       ELSE Ptr(c1.leftover_uncertainty)))
              IN  first([ce EXCEPT
                           !.leftover_bits_data =
                               BitOr(@, Shl(extract_bits(bytes, 0, extract_size),
                                            ce.leftover_bits)) % 65536,
                           !.leftover_uncertainty =
                               stash_uncertainty(@, ce.leftover_bits, uncertainty,
                                                 0, extract_size)])
    ELSE convdecode_data_loop(ce, bytes, 0, nbits, uncertainty)

(* fault injection: the traceback always starts at state 0 *)
min_path_state0(ce, i, cstate, min_val) ==
    [cstate |-> 0, min_val |-> ce.curr_path_values[0]]

(* the state with the smallest current path value, the first on a tie *)
RECURSIVE min_path(_, _, _, _)
min_path(ce, i, cstate, min_val) ==
    IF i >= ce.num_states THEN [cstate |-> cstate, min_val |-> min_val]
    ELSE IF U32Lt(ce.curr_path_values[i], min_val)
    THEN min_path(ce, i + 1, i, ce.curr_path_values[i])
    ELSE min_path(ce, i + 1, cstate, min_val)

(* backwards through the trellis, the bit of each column stored in row 0 *)
RECURSIVE traceback(_, _, _)
traceback(ce, i, cstate) ==
    IF i = 0 THEN ce
    ELSE LET back(pstate) ==
                 traceback(
                     [ce EXCEPT !.trellis =
                          Store(@, trellis_entry(ce, i - 1, 0),
                                get_prev_bit(ce, pstate, cstate))],
                     i - 1, pstate)
         IN  back(ce.trellis[trellis_entry(ce, i - 1, cstate)])

(* forward through columns i..n-1 *)
RECURSIVE replay(_, _, _, _)
replay(ce, cb, i, n) ==
    IF i >= n THEN [ce |-> ce, cb |-> cb, rv |-> 0]
    ELSE LET next(r) ==
                 IF r.rv # 0
                 THEN [ce |-> [ce EXCEPT !.dec_out = r.of], cb |-> r.cb,
                       rv |-> r.rv]
                 ELSE replay([ce EXCEPT !.dec_out = r.of], r.cb, i + 1, n)
         IN  next(output_bits(ce.dec_out, cb,
                              ce.trellis[trellis_entry(ce, i, 0)], 1))

(* The replay when ctrellis - extra_bits wrapped around (ctrellis <
   extra_bits): the loop runs on from column i through cells that this
   session did not write.  A cell nothing ever wrote yields the
   indeterminate value g.  The run is followed up to its first callback
   invocation: either the callback stops it, or it goes on through the
   rest of the allocation and beyond (fault). *)
RECURSIVE runaway(_, _, _, _, _)
runaway(ce, cb, i, g, calls) ==
    LET next(r) ==
            IF r.rv # 0
            THEN [ce |-> [ce EXCEPT !.dec_out = r.of], cb |-> r.cb, rv |-> r.rv,
                  fault |-> FALSE]
            ELSE IF Len(r.cb.log) > calls
            THEN [ce |-> [ce EXCEPT !.dec_out = r.of], cb |-> r.cb,
                  rv |-> Unset, fault |-> TRUE]
            ELSE runaway([ce EXCEPT !.dec_out = r.of], r.cb, i + 1, g, calls)
    IN  next(output_bits(ce.dec_out, cb,
                         IF trellis_entry(ce, i, 0) \in DOMAIN ce.trellis
                         THEN ce.trellis[trellis_entry(ce, i, 0)]
                         ELSE g,
                         1))

(* g: the value a read of never-written memory yields, if one happens; the
   value the callback returns for the last, partial byte is not looked at *)
convdecode_finish(ce, cb, g) ==
    LET extra_bits == IF ce.do_tail THEN ce.k - 1 ELSE 0
        ran(w) ==
            [ce |-> w.ce, cb |-> w.cb, rv |-> w.rv, fault |-> w.fault,
             total_out_bits |-> Unset, num_errs |-> UnsetU32]
        done(r, min_val) ==
            IF r.rv # 0
            THEN [ce |-> r.ce, cb |-> r.cb, rv |-> r.rv, fault |-> FALSE,
                  total_out_bits |-> Unset, num_errs |-> UnsetU32]
            ELSE [ce |-> r.ce,
                  cb |-> IF r.ce.dec_out.out_bit_pos > 0
                         THEN output(r.cb, r.ce.dec_out.out_bits,
                                     r.ce.dec_out.out_bit_pos).cb
                         ELSE r.cb,
                  rv |-> 0, fault |-> FALSE,
                  total_out_bits |-> r.ce.dec_out.total_out_bits,
                  num_errs |-> min_val]
        play(t, min_val) ==
            IF ce.ctrellis < extra_bits
            THEN ran(runaway(t, cb, 0, g, Len(cb.log)))
            ELSE done(replay(t, cb, 0, ce.ctrellis - extra_bits), min_val)
        trace(m) == play(traceback(ce, ce.ctrellis, m.cstate), m.min_val)
    IN  trace(min_path(ce, 1, 0, ce.curr_path_values[0]))

(* fault injection: the value stored for a bit is the one left after the
   distance of its column was subtracted *)
RECURSIVE block_traceback_late(_, _, _, _, _, _)
block_traceback_late(ce, bytes, uncertainty, want, i, b) ==
    IF i = 0 THEN b
    ELSE LET step(pstate, bit) ==
                 block_traceback_late(ce, bytes, uncertainty, want, i - 1,
                     [outbytes |-> IF b.extra_bits = 0
                                   THEN OrByte(b.outbytes, (i - 1) \div 8,
                                               Shl(bit, (i - 1) % 8))
                                   ELSE b.outbytes,
                      output_uncertainty |->
                          IF want /\ b.extra_bits = 0
                          THEN Store(b.output_uncertainty, i - 1,
                                     U32Sub(b.cuncertainty,
                                      hamming_distance(ce,
                                          ce.convert[bit + 1][pstate],
                                          extract_bits(bytes, (i - 1) * ce.num_polys,
                                                       ce.num_polys),
                                          PtrAdd(uncertainty,
                                                 (i - 1) * ce.num_polys))))
                          ELSE b.output_uncertainty,
                      cuncertainty |->
                          IF want
                          THEN U32Sub(b.cuncertainty,
                                   hamming_distance(ce,
                                       ce.convert[bit + 1][pstate],
                                       extract_bits(bytes, (i - 1) * ce.num_polys,
                                                    ce.num_polys),
                                       PtrAdd(uncertainty,
                                              (i - 1) * ce.num_polys)))
                          ELSE b.cuncertainty,
                      extra_bits |-> IF b.extra_bits > 0 THEN b.extra_bits - 1
                                     ELSE 0,
                      cstate |-> pstate])
             at(pstate) == step(pstate, get_prev_bit(ce, pstate, b.cstate))
         IN  at(ce.trellis[trellis_entry(ce, i - 1, b.cstate)])

(* the traceback of convdecode_block: b is [outbytes, output_uncertainty,
   cuncertainty, extra_bits, cstate]; want: output_uncertainty is not NULL *)
RECURSIVE block_traceback(_, _, _, _, _, _)
block_traceback(ce, bytes, uncertainty, want, i, b) ==
    IF i = 0 THEN b
    ELSE LET step(pstate, bit) ==
                 block_traceback(ce, bytes, uncertainty, want, i - 1,
                     [outbytes |-> IF b.extra_bits = 0
                                   THEN OrByte(b.outbytes, (i - 1) \div 8,
                                               Shl(bit, (i - 1) % 8))
                                   ELSE b.outbytes,
                      output_uncertainty |->
                          IF want /\ b.extra_bits = 0
                          THEN Store(b.output_uncertainty, i - 1, b.cuncertainty)
                          ELSE b.output_uncertainty,
                      cuncertainty |->
                          IF want
                          THEN U32Sub(b.cuncertainty,
                                   hamming_distance(ce,
                                       ce.convert[bit + 1][pstate],
                                       extract_bits(bytes, (i - 1) * ce.num_polys,
                                                    ce.num_polys),
                                       PtrAdd(uncertainty,
                                              (i - 1) * ce.num_polys)))
                          ELSE b.cuncertainty,
                      extra_bits |-> IF b.extra_bits > 0 THEN b.extra_bits - 1
                                     ELSE 0,
                      cstate |-> pstate])
             at(pstate) == step(pstate, get_prev_bit(ce, pstate, b.cstate))
         IN  at(ce.trellis[trellis_entry(ce, i - 1, b.cstate)])

(* outbytes: the caller's buffer; want: output_uncertainty is not NULL *)
convdecode_block(ce, bytes, nbits, uncertainty, outbytes, want) ==
    LET out(c, b, min_val) ==
            [rv |-> 0, ce |-> c, outbytes |-> b.outbytes,
             output_uncertainty |-> b.output_uncertainty,
             num_errs |-> min_val]
        back(c, m) ==
            out(c,
                block_traceback(c, bytes, uncertainty, want, c.ctrellis,
                    [outbytes |-> outbytes,
                     output_uncertainty |-> Unwritten,
                     cuncertainty |-> m.min_val,
                     extra_bits |-> IF c.do_tail THEN c.k - 1 ELSE 0,
                     cstate |-> m.cstate]),
                m.min_val)
        decoded(d) ==
            IF d.rv # 0
            THEN [rv |-> 1, ce |-> d.ce, outbytes |-> outbytes,
                  output_uncertainty |-> Unwritten, num_errs |-> UnsetU32]
            ELSE back(d.ce, min_path(d.ce, 1, 0, d.ce.curr_path_values[0]))
    IN  decoded(convdecode_data(ce, bytes, nbits, uncertainty))

(* ------------------------------------------------------------------ *)
(* The harness: do_encode_data, do_decode_data, run_test, rand_test.    *)
(* ------------------------------------------------------------------ *)

(* bound: the longest message (the "decoded" string of the harness) *)
MaxMsgLen == 2

(* bound: the most coded bits the channel flips *)
MaxFlips == 2

(* max_decode_len_bits of every alloc_convcode call of the harness *)
TestMaxDecodeLen == 128

RECURSIVE BitStrings(_)
BitStrings(n) ==
    IF n = 0 THEN {<<>>}
    ELSE {Append(s, b) : b \in 0..1, s \in BitStrings(n - 1)}

Msgs == UNION {BitStrings(n) : n \in 0..MaxMsgLen}

(* the polynomial sets of run_tests with k <= 4, and a set of three
   polynomials of k = 3 in the place of the sets of three, four and seven
   polynomials of k = 7, 9 and 15; each with and without tail *)
Corpus ==
    {[k |-> 3, polynomials |-> p, do_tail |-> t, recursive |-> FALSE] :
        p \in {<<5, 7>>, <<3, 7>>, <<5, 3>>, <<5, 7, 3>>}, t \in BOOLEAN}
    \cup
    {[k |-> 3, polynomials |-> <<5, 5>>, do_tail |-> t, recursive |-> TRUE] :
        t \in BOOLEAN}
    \cup
    {[k |-> 4, polynomials |-> <<10, 13>>, do_tail |-> t, recursive |-> TRUE] :
        t \in BOOLEAN}

Alloc(cfg) ==
    alloc_convcode(cfg.k, cfg.polynomials, Len(cfg.polynomials),
                   TestMaxDecodeLen, cfg.do_tail, cfg.recursive).ce

(* convencode_data on each 8 bits of input, then on the rest, then
   convencode_finish; the return values of the data calls are dropped *)
RECURSIVE do_encode_data(_, _, _)
do_encode_data(c, cb, input) ==
    IF Len(input) >= 8
    THEN LET next(r) == do_encode_data(r.ce, r.cb, SubSeq(input, 9, Len(input)))
         IN  next(convencode_data(c, cb, PackBits(SubSeq(input, 1, 8)), 8))
    ELSE LET finish(r) == convencode_finish(r.ce, r.cb)
         IN  finish(IF Len(input) > 0
                    THEN convencode_data(c, cb, PackBits(input), Len(input))
                    ELSE [ce |-> c, cb |-> cb, rv |-> 0])

(* convdecode_data on each 8 bits of input (from element `from` of the coded
   string), with the reliabilities of those bits, then convdecode_finish *)
RECURSIVE do_decode_data(_, _, _, _, _, _)
do_decode_data(c, cb, input, from, u, g) ==
    IF Len(input) - from >= 8
    THEN do_decode_data(
             convdecode_data(c, PackBits(SubSeq(input, from + 1, from + 8)), 8,
                             PtrAdd(u, from)).ce,
             cb, input, from + 8, u, g)
    ELSE convdecode_finish(
             IF Len(input) - from > 0
             THEN convdecode_data(c, PackBits(SubSeq(input, from + 1, Len(input))),
                                  Len(input) - from, PtrAdd(u, from)).ce
             ELSE c,
             cb, g)

(* the values a read of never-written memory is taken to yield *)
Indeterminate == {0, 1, 65535}

(* the coded string with the bits at the positions of f flipped *)
RECURSIVE Flip(_, _)
Flip(bs, f) ==
    IF bs = <<>> THEN <<>>
    ELSE Append(Flip(SubSeq(bs, 1, Len(bs) - 1), f),
                IF Len(bs) \in f THEN 1 - bs[Len(bs)] ELSE bs[Len(bs)])

(* reliabilities of n coded bits: 0 for every bit but bit j (from 1; none
   when j = 0), which has the value v *)
RECURSIVE OneDoubt(_, _, _)
OneDoubt(n, j, v) ==
    IF n = 0 THEN Unwritten
    ELSE Store(OneDoubt(n - 1, j, v), n - 1, IF n = j THEN v ELSE 0)

VARIABLES
    ce,            \* struct convcode
    enc_cb,        \* the encoder's output callback: its log and failure point
    dec_cb,        \* the decoder's output callback
    pc,            \* where the caller is
    test,          \* the caller's parameters: cfg, decoded, ...
    encoded,       \* the coded bit string given to the decoder
    uncertainty,   \* the reliabilities given to the decoder, or NULL
    fed,           \* the bits of the input passed to the codec so far
    enc_res,       \* what the encoder calls returned
    dec_res,       \* what the decoder calls returned
    blk            \* what the block calls returned

vars == <<ce, enc_cb, dec_cb, pc, test, encoded, uncertainty, fed,
          enc_res, dec_res, blk>>

NoRes == [rv |-> Unset]

(* run_test / rand_test: allocate, then encode `decoded` *)
Init ==
    \E cfg \in Corpus, m \in Msgs :
       /\ test = [cfg |-> cfg, decoded |-> m, flips |-> {}, doubt |-> 0,
                  cut |-> FALSE, garbage |-> 0]
       /\ ce = IF cfg.recursive
               THEN set_encode_output_per_symbol(Alloc(cfg), TRUE)
               ELSE Alloc(cfg)
       /\ enc_cb = NewSink(0)
       /\ dec_cb = NewSink(0)
       /\ pc = "encode"
       /\ encoded = <<>>
       /\ uncertainty = NULL
       /\ fed = 0
       /\ enc_res = NoRes
       /\ dec_res = NoRes
       /\ blk = NoRes

(* do_encode_data(ce, decoded, &enc_nbits); the output is the coded string *)
DoEncode ==
    /\ pc = "encode"
    /\ \E r \in {do_encode_data(ce, enc_cb, test.decoded)} :
           /\ ce' = r.ce
           /\ enc_cb' = r.cb
           /\ enc_res' = [rv |-> r.rv, total_out_bits |-> r.total_out_bits]
           /\ encoded' = LogBits(r.cb.log)
    /\ fed' = Len(test.decoded)
    /\ pc' = "channel"
    /\ UNCHANGED <<dec_cb, test, uncertainty, dec_res, blk>>

(* the channel between encoder and decoder: it flips up to MaxFlips coded
   bits (hard decisions); or it leaves the bits alone and reports
   reliabilities, all 0 or one bit with the reliability uncertainty_100; or
   it delivers only the first bits of the stream, and the memory that the
   decoder never wrote holds some value *)
Channel ==
    /\ pc = "channel"
    /\ \/ \E f \in SUBSET (1..Len(encoded)) :
            /\ Cardinality(f) <= MaxFlips
            /\ encoded' = Flip(encoded, f)
            /\ uncertainty' = NULL
            /\ test' = [test EXCEPT !.flips = f]
       \/ \E j \in 0..Len(encoded) :
            /\ encoded' = encoded
            /\ uncertainty' = Ptr(OneDoubt(Len(encoded), j, ce.uncertainty_100))
            /\ test' = [test EXCEPT !.doubt = j]
       \/ \E n \in 0..(Len(encoded) - 1), g \in Indeterminate, soft \in BOOLEAN :
            /\ encoded' = SubSeq(encoded, 1, n)
            /\ uncertainty' = IF soft THEN Ptr(OneDoubt(n, 0, 0)) ELSE NULL
            /\ test' = [test EXCEPT !.cut = TRUE, !.garbage = g]
    /\ pc' = "decode"
    /\ UNCHANGED <<ce, enc_cb, dec_cb, fed, enc_res, dec_res, blk>>

(* do_decode_data(ce, encoded, &dec_nbits, &num_errs, uncertainty) *)
DoDecode ==
    /\ pc = "decode"
    /\ \E r \in {do_decode_data(ce, dec_cb, encoded, 0, uncertainty,
                                test.garbage)} :
           /\ ce' = r.ce
           /\ dec_cb' = r.cb
           /\ dec_res' = [rv |-> r.rv, total_out_bits |-> r.total_out_bits,
                          num_errs |-> r.num_errs, fault |-> r.fault,
                          output |-> LogBits(r.cb.log)]
           /\ pc' = IF r.fault THEN "fault" ELSE "decoded"
    /\ fed' = Len(encoded)
    /\ UNCHANGED <<enc_cb, test, encoded, uncertainty, enc_res, blk>>

(* a zeroed buffer with room for nbits bits *)
RECURSIVE ZeroBytes(_)
ZeroBytes(nbits) == IF nbits <= 0 THEN <<0>> ELSE Append(ZeroBytes(nbits - 8), 0)

(* reinit_convcode(ce), then convdecode_block on the same coded string *)
DoDecodeBlock ==
    /\ pc = "decoded"
    /\ \E r \in {convdecode_block(reinit_convcode(ce).ce, PackBits(encoded) \o <<0>>,
                                  Len(encoded), uncertainty,
                                  ZeroBytes(Len(encoded)), TRUE)} :
           /\ ce' = r.ce
           /\ blk' = [rv |-> r.rv, outbytes |-> r.outbytes,
                      output_uncertainty |-> r.output_uncertainty,
                      num_errs |-> r.num_errs]
    /\ pc' = "done"
    /\ UNCHANGED <<enc_cb, dec_cb, test, encoded, uncertainty, fed, enc_res, dec_res>>

Next == DoEncode \/ Channel \/ DoDecode \/ DoDecodeBlock

Spec == Init /\ [][Next]_vars

(* ------------------------------------------------------------------ *)
(* An encoder session driven by a caller: reinit_convencode, then       *)
(* convencode_data in any number of calls, then convencode_finish, then *)
(* the same message through convencode_block.                           *)
(* ------------------------------------------------------------------ *)

(* bound: the callback invocation that fails is one of the first
   MaxFailAt (0: none fails) *)
MaxFailAt == 3

(* configurations with 1, 9 and 16 polynomials, next to the corpus *)
WideCorpus ==
    {[k |-> 3, polynomials |-> p, do_tail |-> t, recursive |-> FALSE] :
        p \in {<<7>>,
               <<5, 7, 3, 6, 1, 4, 2, 7, 5>>,
               <<5, 7, 3, 6, 1, 4, 2, 7, 5, 3, 6, 1, 7, 2, 4, 5>>},
        t \in BOOLEAN}

(* the start states a caller passes to reinit_convencode: every state *)
StartStates(cfg) == 0..(Pow2(cfg.k - 1) - 1)

InitEnc ==
    \E cfg \in Corpus \cup WideCorpus, m \in Msgs, per_symbol \in BOOLEAN,
       fail_at \in 0..MaxFailAt :
      \E s \in StartStates(cfg) :
       /\ test = [cfg |-> cfg, decoded |-> m, start_state |-> s,
                  per_symbol |-> per_symbol]
       /\ ce = reinit_convencode(
                   set_encode_output_per_symbol(Alloc(cfg), per_symbol), s)
       /\ enc_cb = NewSink(fail_at)
       /\ dec_cb = NewSink(0)
       /\ pc = "enc"
       /\ encoded = <<>>
       /\ uncertainty = NULL
       /\ fed = 0
       /\ enc_res = NoRes
       /\ dec_res = NoRes
       /\ blk = NoRes

(* convencode_data(ce, bytes, n) on the next n bits of the message, which
   the caller packed into a buffer of its own *)
EncData ==
    /\ pc = "enc"
    /\ \E n \in 1..(Len(test.decoded) - fed) :
         \E r \in {convencode_data(ce, enc_cb,
                                   PackBits(SubSeq(test.decoded, fed + 1, fed + n)),
                                   n)} :
           /\ ce' = r.ce
           /\ enc_cb' = r.cb
           /\ enc_res' = [rv |-> r.rv, call |-> "data"]
           /\ fed' = fed + n
           /\ pc' = IF r.rv # 0 THEN "enc_failed" ELSE "enc"
    /\ UNCHANGED <<dec_cb, test, encoded, uncertainty, dec_res, blk>>

(* convencode_finish(ce, &total_out_bits) once the whole message is in *)
EncFinish ==
    /\ pc = "enc"
    /\ fed = Len(test.decoded)
    /\ \E r \in {convencode_finish(ce, enc_cb)} :
           /\ ce' = r.ce
           /\ enc_cb' = r.cb
           /\ enc_res' = [rv |-> r.rv, call |-> "finish",
                          total_out_bits |-> r.total_out_bits]
           /\ encoded' = LogBits(r.cb.log)
           /\ pc' = IF r.rv # 0 THEN "enc_failed" ELSE "enc_done"
    /\ UNCHANGED <<dec_cb, test, uncertainty, fed, dec_res, blk>>

(* the number of coded bits of a message of n bits *)
CodedLen(cfg, n) ==
    (n + (IF cfg.do_tail THEN cfg.k - 1 ELSE 0)) * Len(cfg.polynomials)

(* reinit_convencode(ce, start_state), then convencode_block of the whole
   message into a zeroed buffer *)
EncBlock ==
    /\ pc = "enc_done"
    /\ \E r \in {convencode_block(reinit_convencode(ce, test.start_state),
                                  PackBits(test.decoded), Len(test.decoded),
                                  ZeroBytes(CodedLen(test.cfg, Len(test.decoded))))} :
           /\ ce' = r.ce
           /\ blk' = [rv |-> 0, outbytes |-> r.outbytes,
                      stream_enc_state |-> ce.enc_state]
    /\ pc' = "enc_blocked"
    /\ UNCHANGED <<enc_cb, dec_cb, test, encoded, uncertainty, fed, enc_res, dec_res>>

NextEnc == EncData \/ EncFinish \/ EncBlock

SpecEnc == InitEnc /\ [][NextEnc]_vars

(* ------------------------------------------------------------------ *)
(* A decoder session driven by a caller: convdecode_data in any number  *)
(* of calls of any size, then convdecode_finish.                        *)
(* ------------------------------------------------------------------ *)

(* bound: the most convdecode_data calls of a session *)
MaxCalls == 3

(* a code of three polynomials and one of two, with and without tail *)
ChunkCorpus ==
    {[k |-> 3, polynomials |-> p, do_tail |-> t, recursive |-> FALSE] :
        p \in {<<5, 7, 3>>, <<5, 7>>}, t \in BOOLEAN}

(* reliabilities of n coded bits, a different one for neighbouring bits *)
RECURSIVE SomeDoubts(_)
SomeDoubts(n) ==
    IF n = 0 THEN Unwritten
    ELSE Store(SomeDoubts(n - 1), n - 1, (7 * n) % 40)

(* the coded stream of a message, as the encoder delivers it *)
Codeword(cfg, m) == LogBits(do_encode_data(Alloc(cfg), NewSink(0), m).cb.log)

InitChunk ==
    \E cfg \in ChunkCorpus, m \in Msgs, soft \in BOOLEAN :
       /\ test = [cfg |-> cfg, decoded |-> m, calls |-> 0]
       /\ ce = Alloc(cfg)
       /\ enc_cb = NewSink(0)
       /\ dec_cb = NewSink(0)
       /\ pc = "dec"
       /\ encoded = Codeword(cfg, m)
       /\ uncertainty = IF soft THEN Ptr(SomeDoubts(CodedLen(cfg, Len(m))))
                        ELSE NULL
       /\ fed = 0
       /\ enc_res = NoRes
       /\ dec_res = NoRes
       /\ blk = NoRes

(* convdecode_data(ce, bytes, n, uncertainty) on the next n bits of the
   stream, which the caller packed into a buffer of its own, with the
   reliabilities of those bits *)
Feed ==
    /\ pc = "dec"
    /\ test.calls < MaxCalls
    /\ \E n \in 1..(Len(encoded) - fed) :
         \E r \in {convdecode_data(ce,
                                   PackBits(SubSeq(encoded, fed + 1, fed + n))
                                       \o <<0>>,
                                   n, PtrAdd(uncertainty, fed))} :
           /\ ce' = r.ce
           /\ dec_res' = [rv |-> r.rv]
           /\ fed' = fed + n
           /\ pc' = IF r.rv # 0 THEN "dec_failed" ELSE "dec"
    /\ test' = [test EXCEPT !.calls = @ + 1]
    /\ UNCHANGED <<enc_cb, dec_cb, encoded, uncertainty, enc_res, blk>>

(* convdecode_finish(ce, &total_out_bits, &num_errs) once the whole stream
   is in *)
ChunkFinish ==
    /\ pc = "dec"
    /\ fed = Len(encoded)
    /\ \E r \in {convdecode_finish(ce, dec_cb, 0)} :
           /\ ce' = r.ce
           /\ dec_cb' = r.cb
           /\ dec_res' = [rv |-> r.rv, total_out_bits |-> r.total_out_bits,
                          num_errs |-> r.num_errs, fault |-> r.fault,
                          output |-> LogBits(r.cb.log)]
           /\ pc' = "dec_done"
    /\ UNCHANGED <<enc_cb, test, encoded, uncertainty, fed, enc_res, blk>>

NextChunk == Feed \/ ChunkFinish

SpecChunk == InitChunk /\ [][NextChunk]_vars

(* ------------------------------------------------------------------ *)
(* Properties.                                                          *)
(* ------------------------------------------------------------------ *)

(* the decoder got the whole coded stream and convdecode_finish returned *)
Delivered == pc \in {"decoded", "done"} /\ ~test.cut

(* nothing was flipped and no bit is doubted (hard decisions, or soft ones
   with every reliability 0) *)
NoiseFree == Delivered /\ test.flips = {} /\ test.doubt = 0

(* C1: noise-free round trip.  For every configuration of the corpus and
   every message m, decoding the unmodified coded stream of m makes
   convdecode_finish return 0 and deliver exactly the bits of m, with
   total_out_bits = |m| and num_errs = 0. *)
C1_RoundTrip ==
    NoiseFree =>
        /\ dec_res.rv = 0
        /\ dec_res.output = test.decoded
        /\ dec_res.total_out_bits = Len(test.decoded)
        /\ dec_res.num_errs = U32(0)

(* a recursive code without tail and a message of two bits, 1 first *)
C1_Witness ==
    /\ NoiseFree
    /\ test.cfg.recursive /\ ~test.cfg.do_tail
    /\ test.decoded = <<1, 0>>
    /\ dec_res.output = <<1, 0>>
    /\ dec_res.num_errs = U32(0)

(* ---- the reference encoding ---- *)

(* message bit t (from 0); 0 before the message and after it (the tail) *)
MsgBit(m, t) == IF t >= 0 /\ t < Len(m) THEN m[t + 1] ELSE 0

(* bit (k-1-i) of the polynomial p as the caller supplies it *)
Tap(p, k, i) == (p \div Pow2(k - 1 - i)) % 2

(* the sum of m[t-i] over the i in 0..n-1 whose tap is set *)
RECURSIVE TapSum(_, _, _, _, _)
TapSum(p, k, m, t, n) ==
    IF n = 0 THEN 0
    ELSE Tap(p, k, n - 1) * MsgBit(m, t - (n - 1)) + TapSum(p, k, m, t, n - 1)

(* the coded bit for input position t and polynomial j (from 0) *)
RefBit(cfg, m, t, j) == TapSum(cfg.polynomials[j + 1], cfg.k, m, t, cfg.k) % 2

(* the coded bits for the input positions 0..n-1, polynomial 0 first *)
RefSymbols(cfg, m, n) ==
    [x \in 1..(n * Len(cfg.polynomials)) |->
        RefBit(cfg, m, (x - 1) \div Len(cfg.polynomials),
               (x - 1) % Len(cfg.polynomials))]

RefStream(cfg, m) ==
    RefSymbols(cfg, m, Len(m) + (IF cfg.do_tail THEN cfg.k - 1 ELSE 0))

(* the first vector of run_tests *)
Vector1 ==
    [cfg |-> [k |-> 3, polynomials |-> <<5, 7>>, do_tail |-> TRUE,
              recursive |-> FALSE],
     decoded |-> <<0,1,0,1,1,1,0,0,1,0,1,0,0,0,1>>,
     encoded |-> <<0,0,1,1,0,1,0,0,1,0,0,1,1,0,1,1,1,1,0,1,0,0,0,1,1,1,0,0,1,1,
                   0,1,1,1>>]

Vector1Encodes == Codeword(Vector1.cfg, Vector1.decoded) = Vector1.encoded

(* the encode session ended with every coded bit delivered: the callback
   carries at most 8 bits per invocation *)
EncodedWhole ==
    /\ pc \in {"enc_done", "enc_blocked"}
    /\ test.per_symbol => Len(test.cfg.polynomials) <= 8

(* C2: bit-exact reference encoding.  For a non-recursive codec started in
   state 0 the coded bit for input position t and polynomial j is the XOR
   of the message bits m[t-i], i in 0..k-1, for which bit (k-1-i) of the
   caller's polynomial j is set, bits outside the message being 0, and
   polynomial 0's bit comes first in each symbol; k = 3, polynomials {5,7},
   do_tail encodes 010111001010001 to
   0011010010011011110100011100110111. *)
C2_ReferenceEncoding ==
    /\ (EncodedWhole /\ ~test.cfg.recursive /\ test.start_state = 0) =>
           encoded = RefStream(test.cfg, test.decoded)
    /\ Vector1Encodes

(* polynomials that are not palindromes, a message that is not one either *)
C2_Witness ==
    /\ pc = "enc_done"
    /\ test.cfg.polynomials = <<3, 7>> /\ test.cfg.do_tail
    /\ test.start_state = 0
    /\ test.decoded = <<1, 0>>
    /\ encoded = <<0, 1, 1, 1, 1, 1, 0, 0>>

(* ---- the best path ---- *)

(* the number of positions 1..n at which a and b differ *)
RECURSIVE Differ(_, _, _)
Differ(a, b, n) ==
    IF n = 0 THEN 0
    ELSE (IF a[n] # b[n] THEN 1 ELSE 0) + Differ(a, b, n - 1)

(* the Hamming distance between the coded stream of the input s, fed to the
   encoder from state 0, and the received symbols *)
PathDist(s) ==
    Differ(RefSymbols(test.cfg, s, Len(s)), encoded,
           Len(s) * Len(test.cfg.polynomials))

(* the bits the traceback left in row 0 of the columns 0..ctrellis-1 *)
Traced == [i \in 1..ce.ctrellis |-> ce.trellis[trellis_entry(ce, i - 1, 0)]]

(* a hard-decision decode on a non-recursive codec just returned *)
HardDecoded ==
    pc = "decoded" /\ uncertainty.null /\ ~test.cfg.recursive

(* C3: Viterbi optimality.  In hard-decision mode on a non-recursive codec
   after a default reinit, num_errs of convdecode_finish is the least
   Hamming distance between the received symbols and the coded stream of
   any input of ctrellis bits fed to the encoder from state 0; the bits the
   traceback recovers are an input at that distance, and the decoded bits
   are the first of them. *)
C3_ViterbiOptimal ==
    HardDecoded =>
        /\ \A s \in BitStrings(ce.ctrellis) :
               ~U32Lt(U32(PathDist(s)), dec_res.num_errs)
        /\ U32(PathDist(Traced)) = dec_res.num_errs
        /\ dec_res.output = [i \in 1..dec_res.total_out_bits |-> Traced[i]]

(* two coded bits flipped, and the nearest path is not the message's *)
C3_Witness ==
    /\ HardDecoded
    /\ Cardinality(test.flips) = 2
    /\ test.cfg.do_tail
    /\ dec_res.num_errs = U32(1)
    /\ dec_res.output # test.decoded

(* ---- error correction ---- *)

(* a hard-decision decode of a whole codeword of k = 3, {5,7} with tail, of
   which the channel flipped the bits test.flips *)
Hard57 ==
    /\ Delivered /\ uncertainty.null
    /\ test.cfg.polynomials = <<5, 7>> /\ test.cfg.do_tail

(* a hard-decision decode of a whole codeword of a non-recursive codec
   with tail *)
HardTail == Delivered /\ uncertainty.null /\ test.cfg.do_tail /\ ~test.cfg.recursive

(* C4 as stated: with k = 3, polynomials {5,7} and do_tail, whose
   correction bound floor((dfree-1)/2) is 2, e <= 2 flipped coded bits give
   the original message and num_errs = e. *)
C4_AsStated ==
    (Hard57 /\ Cardinality(test.flips) <= 2) =>
        /\ dec_res.output = test.decoded
        /\ dec_res.num_errs = U32(Cardinality(test.flips))

(* C4: hard-decision error correction.  For the non-recursive codecs of
   the corpus with do_tail, one flipped coded bit of a valid codeword still
   gives the original message, and num_errs is never above the number e of
   flipped bits; with k = 3 and polynomials {5,7}, num_errs = e for
   e <= 1. *)
C4_ErrorCorrection ==
    /\ HardTail =>
           /\ dec_res.num_errs = U32(Cardinality(test.flips))
              \/ U32Lt(dec_res.num_errs, U32(Cardinality(test.flips)))
           /\ Cardinality(test.flips) <= 1 => dec_res.output = test.decoded
    /\ (Hard57 /\ Cardinality(test.flips) <= 1) =>
           dec_res.num_errs = U32(Cardinality(test.flips))

(* one flipped bit in the last symbol of the tail, corrected *)
C4_Witness ==
    /\ Hard57
    /\ test.decoded = <<1, 1>>
    /\ test.flips = {Len(encoded)}
    /\ dec_res.output = <<1, 1>>
    /\ dec_res.num_errs = U32(1)

(* ---- one doubted bit ---- *)

(* a soft-decision decode of a whole, unmodified codeword in which the one
   coded bit test.doubt has the reliability uncertainty_100 *)
OneDoubted == Delivered /\ ~uncertainty.null /\ test.doubt > 0

(* the codes for which one doubted bit is always overcome *)
DoubtProof ==
    test.cfg.do_tail /\ test.cfg.polynomials \in {<<5, 7>>, <<5, 7, 3>>}

(* C5 as stated: whatever the configuration and the position j, the
   decoder delivers m and num_errs = uncertainty_100. *)
C5_AsStated ==
    OneDoubted =>
        /\ dec_res.output = test.decoded
        /\ dec_res.num_errs = U32(ce.uncertainty_100)

(* C5: soft decoding of one maximally doubted bit.  With do_tail and k = 3,
   polynomials {5,7} or {5,7,3}, the decoder delivers m and num_errs =
   uncertainty_100 for every position j of the coded stream; for every
   configuration num_errs is at most uncertainty_100 and |m| bits are
   delivered. *)
C5_OneDoubtedBit ==
    OneDoubted =>
        /\ dec_res.num_errs = U32(ce.uncertainty_100)
           \/ U32Lt(dec_res.num_errs, U32(ce.uncertainty_100))
        /\ dec_res.total_out_bits = Len(test.decoded)
        /\ DoubtProof =>
               /\ dec_res.output = test.decoded
               /\ dec_res.num_errs = U32(ce.uncertainty_100)

(* the doubted bit is the last of the stream *)
C5_Witness ==
    /\ OneDoubted /\ DoubtProof
    /\ test.doubt = Len(encoded)
    /\ test.decoded = <<0, 1>>
    /\ dec_res.output = <<0, 1>>
    /\ dec_res.num_errs = U32(100)

(* ---- one call or many ---- *)

(* one convdecode_data call on the whole stream, then convdecode_finish, on
   a freshly allocated codec *)
OneCall(cfg, stream, u) ==
    convdecode_finish(
        convdecode_data(Alloc(cfg), PackBits(stream) \o <<0>>, Len(stream), u).ce,
        NewSink(0), 0)

(* the session's results are those of r *)
SameDecode(r) ==
    /\ dec_res.output = LogBits(r.cb.log)
    /\ dec_res.total_out_bits = r.total_out_bits
    /\ dec_res.num_errs = r.num_errs

(* C6: decoder chunking invariance.  However a coded stream is split into
   consecutive convdecode_data calls, the decoded bits, total_out_bits and
   num_errs after convdecode_finish are those of one convdecode_data call
   on the whole stream. *)
C6_ChunkingInvariance ==
    pc = "dec_done" => SameDecode(OneCall(test.cfg, encoded, uncertainty))

(* ---- block or streaming ---- *)

(* convdecode_block of the stream on a freshly allocated codec, into a
   zeroed buffer *)
BlockOf(cfg, stream, u) ==
    convdecode_block(Alloc(cfg), PackBits(stream) \o <<0>>, Len(stream), u,
                     ZeroBytes(Len(stream)), TRUE)

(* the streaming session's bits and num_errs are those of the block call b *)
SameAsBlock(b) ==
    /\ dec_res.output = BufBits(b.outbytes, Len(dec_res.output))
    /\ dec_res.num_errs = b.num_errs

(* C7: block and streaming decode.  For every coded stream, with
   reliabilities or without, convdecode_block into a zeroed buffer gives the
   decoded bits and the num_errs of convdecode_data followed by
   convdecode_finish. *)
C7_BlockEqualsStreaming ==
    pc \in {"decoded", "fault"} =>
        SameAsBlock(BlockOf(test.cfg, encoded, uncertainty))

(* whenever convdecode_finish returns, the two agree: on the decoded bits,
   on num_errs, and the block call sets no bit beyond them *)
BlockAgreesWhenFinishReturns ==
    pc = "done" =>
        /\ dec_res.output = BufBits(blk.outbytes, dec_res.total_out_bits)
        /\ dec_res.num_errs = blk.num_errs
        /\ blk.rv = 0
        /\ \A i \in dec_res.total_out_bits..(8 * Len(blk.outbytes) - 1) :
               BufBit(blk.outbytes, i) = 0

(* convdecode_finish ran through memory the session never wrote *)
FinishRanAway == pc = "fault"

(* the packed-byte encode session and the block call on the same message *)
BlockEncoded == pc = "enc_blocked" /\ ~test.per_symbol

(* C8: block and streaming encode.  For every message, start state and
   configuration (1 to 16 polynomials, do_tail on or off), convencode_block
   into a zeroed buffer produces the bit sequence that convencode_data and
   convencode_finish deliver through the callback in packed-byte mode, and
   leaves the same enc_state. *)
C8_BlockEncode ==
    BlockEncoded =>
        /\ BufBits(blk.outbytes, CodedLen(test.cfg, Len(test.decoded))) = encoded
        /\ Len(encoded) = CodedLen(test.cfg, Len(test.decoded))
        /\ ce.enc_state = blk.stream_enc_state

(* nine polynomials: every symbol lies across a byte boundary *)
C8_Witness ==
    /\ BlockEncoded
    /\ Len(test.cfg.polynomials) = 9 /\ test.cfg.do_tail
    /\ test.start_state = 3
    /\ test.decoded = <<1, 0>>
    /\ Len(encoded) = 36
    /\ BufBits(blk.outbytes, 36) = encoded

(* ---- convencode_finish's results ---- *)

(* C9: total_out_bits.  convencode_finish reports in total_out_bits the
   number of coded bits of the session, (n + (do_tail ? k-1 : 0)) *
   num_polys for n input bits, in packed-byte and in per-symbol mode. *)
C9_TotalOutBits ==
    pc \in {"enc_done", "enc_blocked"} =>
        enc_res.total_out_bits = CodedLen(test.cfg, Len(test.decoded))

(* the callback returned nonzero on an invocation of this session *)
SinkFailed == enc_cb.fail_at > 0 /\ Len(enc_cb.log) >= enc_cb.fail_at

(* C10: sink error propagation.  When the callback returns nonzero on an
   invocation made during convencode_data or convencode_finish, the final
   one that flushes a partial byte included, that call makes no further
   invocation and returns the callback's value. *)
C10_SinkError ==
    SinkFailed =>
        /\ Len(enc_cb.log) = enc_cb.fail_at
        /\ enc_res.rv = SinkErr
        /\ pc = "enc_failed"

(* a nonzero return of an invocation carrying a whole byte or a whole symbol
   is passed on, and nothing is invoked after it *)
SinkErrorBeforeFlush ==
    (SinkFailed /\ ~(enc_res.call = "finish" /\ ~test.per_symbol
                     /\ enc_cb.log[enc_cb.fail_at][2] < 8)) =>
        /\ Len(enc_cb.log) = enc_cb.fail_at
        /\ enc_res.rv = SinkErr
        /\ pc = "enc_failed"

(* ------------------------------------------------------------------ *)
(* Decoding up to and beyond the capacity of the trellis: a codec       *)
(* allocated for a few message bits is fed a coded stream in calls of   *)
(* any sizes.                                                           *)
(* ------------------------------------------------------------------ *)

(* the largest max_decode_len_bits a codec is allocated with *)
MaxCapLen == 2

CapAlloc(cfg, n) ==
    alloc_convcode(cfg.k, cfg.polynomials, Len(cfg.polynomials), n,
                   cfg.do_tail, cfg.recursive).ce

(* n received bits that are no codeword: 0 1 1 0 0 1 1 ... *)
RECURSIVE Overlong(_)
Overlong(n) == IF n = 0 THEN <<>> ELSE Append(Overlong(n - 1), (n \div 2) % 2)

(* two symbols more than decode_bits takes with max_decode_len_bits = n *)
OverlongSymbols(cfg, n) == n + (cfg.k - 1) * Len(cfg.polynomials) + 3

(* the number of cells of the array ce->trellis: alloc_convcode asks malloc
   for trellis_size times num_states elements *)
TrellisCells(c) == c.trellis_size * c.num_states

(* where the caller is after a decoder call that would leave it at `at`: a
   store beyond the end of the array ce->trellis is undefined, the program
   goes on as if there were room or does not go on at all *)
AfterStore(before, after, at) ==
    IF \E c \in before.ctrellis..(after.ctrellis - 1) :
           trellis_entry(after, c, after.num_states - 1) >= TrellisCells(after)
    THEN {at, "fault"}
    ELSE {at}

InitCap ==
    \E cfg \in ChunkCorpus, n \in 1..MaxCapLen, within \in BOOLEAN :
      \E m \in UNION {BitStrings(i) : i \in 0..n} :
       /\ within \/ m = <<>>
       /\ test = [cfg |-> cfg, max_decode_len_bits |-> n, within |-> within,
                  decoded |-> m]
       /\ ce = CapAlloc(cfg, n)
       /\ enc_cb = NewSink(0)
       /\ dec_cb = NewSink(0)
       /\ pc = "dec"
       /\ encoded = IF within THEN Codeword(cfg, m)
                    ELSE Overlong(OverlongSymbols(cfg, n) * Len(cfg.polynomials))
       /\ uncertainty = NULL
       /\ fed = 0
       /\ enc_res = NoRes
       /\ dec_res = NoRes
       /\ blk = NoRes

(* convdecode_data(ce, bytes, n, NULL) on the next n bits of the stream;
   symbols is the number of symbols those bits complete together with the
   bits left over by the call before, columns the number of trellis columns
   the call filled *)
CapFeed ==
    /\ pc = "dec"
    /\ \E n \in 1..(Len(encoded) - fed) :
         \E r \in {convdecode_data(ce,
                                   PackBits(SubSeq(encoded, fed + 1, fed + n))
                                       \o <<0>>,
                                   n, NULL)} :
           /\ ce' = r.ce
           /\ dec_res' = [rv |-> r.rv,
                          symbols |-> (ce.leftover_bits + n) \div ce.num_polys,
                          columns |-> r.ce.ctrellis - ce.ctrellis]
           /\ fed' = fed + n
           /\ pc' \in AfterStore(ce, r.ce, IF r.rv # 0 THEN "dec_failed" ELSE "dec")
    /\ UNCHANGED <<enc_cb, dec_cb, test, encoded, uncertainty, enc_res, blk>>

NextCap == CapFeed

SpecCap == InitCap /\ [][NextCap]_vars

(* a call of convdecode_data has returned *)
FeedReturned == pc \in {"dec", "dec_failed"} /\ fed > 0

(* C11: a call of convdecode_data that returns 0 has put every symbol it
   was given into the trellis, the one completed from the bits left over by
   the call before included: when decode_bits rejects a symbol for lack of
   room, the call returns nonzero *)
C11_CapacityError ==
    (FeedReturned /\ dec_res.rv = 0) => dec_res.columns = dec_res.symbols

(* C12: a codec allocated with max_decode_len_bits = N takes the coded
   stream of every message of up to N bits, tail included, in calls of any
   sizes without an error, every symbol getting its trellis column, and
   ctrellis never exceeds trellis_size = N + k * num_polys *)
C12_CapacityGuarantee ==
    /\ ce.ctrellis <= ce.trellis_size
    /\ ce.trellis_size
           = test.max_decode_len_bits + test.cfg.k * Len(test.cfg.polynomials)
    /\ (test.within /\ FeedReturned) =>
           /\ dec_res.rv = 0
           /\ dec_res.columns = dec_res.symbols
           /\ ce.ctrellis * ce.num_polys + ce.leftover_bits = fed

(* the whole coded stream of a message of N bits with its tail is in, fed
   in more than one call *)
C12_Witness ==
    /\ test.within /\ test.cfg.do_tail
    /\ Len(test.decoded) = test.max_decode_len_bits
    /\ pc = "dec" /\ fed = Len(encoded)
    /\ dec_res.symbols = 1 /\ dec_res.rv = 0
    /\ ce.ctrellis = test.max_decode_len_bits + test.cfg.k - 1

(* ---- C29 ---- *)

(* the cells of two columns below trellis_size, or of two states of one
   column, are different cells *)
TrellisCellsDistinct ==
    \A c1, c2 \in 0..(ce.trellis_size - 1) :
      \A s1, s2 \in 0..(ce.num_states - 1) :
        <<c1, s1>> # <<c2, s2>>
            => trellis_entry(ce, c1, s1) # trellis_entry(ce, c2, s2)

(* C29: every cell of the trellis the decoder has written lies inside the
   array of trellis_size * num_states cells, and the cells of different
   columns and states are different cells *)
C29_TrellisBounds ==
    /\ \A idx \in DOMAIN ce.trellis : idx < TrellisCells(ce)
    /\ TrellisCellsDistinct

(* ------------------------------------------------------------------ *)
(* Setting up and allocating a codec with parameters inside and         *)
(* outside their ranges.                                                *)
(* ------------------------------------------------------------------ *)

(* the largest k whose tables are built here *)
MaxAllocK == 3

(* the caller's struct convcode before setup_convcode1 has seen it *)
Uninitialised == [uninitialised |-> TRUE]

(* n polynomials of k bits, as convcode_state values *)
RECURSIVE SetupPolynomials(_, _)
SetupPolynomials(k, n) ==
    IF n = 0 THEN <<>>
    ELSE Append(SetupPolynomials(k, n - 1),
                (Pow2(k) - 1 - ((n - 1) % Pow2(k))) % 65536)

InitSetup ==
    \E k \in 0..(CONVCODE_MAX_K + 1), n \in 0..(CONVCODE_MAX_POLYNOMIALS + 1),
       len \in 0..1, t \in BOOLEAN :
       /\ test = [cfg |-> [k |-> k, polynomials |-> SetupPolynomials(k, n),
                           do_tail |-> t, recursive |-> FALSE],
                  max_decode_len_bits |-> len]
       /\ ce = Uninitialised
       /\ enc_cb = NewSink(0)
       /\ dec_cb = NewSink(0)
       /\ pc = "new"
       /\ encoded = <<>>
       /\ uncertainty = NULL
       /\ fed = 0
       /\ enc_res = NoRes
       /\ dec_res = NoRes
       /\ blk = NoRes

(* setup_convcode1(ce, k, polynomials, num_polynomials,
   max_decode_len_bits, do_tail, recursive) on the caller's structure; with
   k == 0 num_states is whatever the undefined shift leaves *)
SetupCodec ==
    /\ pc = "new"
    /\ \E r \in {setup_convcode1(test.cfg.k, test.cfg.polynomials,
                                 Len(test.cfg.polynomials),
                                 test.max_decode_len_bits, test.cfg.do_tail,
                                 test.cfg.recursive)} :
         /\ enc_res' = [rv |-> r.rv, call |-> "setup_convcode1"]
         /\ IF r.rv # 0 THEN ce' = ce
            ELSE IF r.ce.k = 0 (* num_states is UndefinedShift *)
            THEN \E g \in UndefinedShiftOutcomes :
                     ce' = [r.ce EXCEPT !.num_states = g]
            ELSE ce' = r.ce
    /\ pc' = "setup"
    /\ UNCHANGED <<enc_cb, dec_cb, test, encoded, uncertainty, fed, dec_res, blk>>

(* alloc_convcode(k, polynomials, num_polynomials, max_decode_len_bits,
   do_tail, recursive, ...), for the parameters it refuses and for the k
   whose tables are built here *)
AllocCodec ==
    /\ pc = "new"
    /\ \/ test.cfg.k \in 1..MaxAllocK
       \/ test.cfg.k > CONVCODE_MAX_K
       \/ Len(test.cfg.polynomials) \notin 1..CONVCODE_MAX_POLYNOMIALS
    /\ \E r \in {alloc_convcode(test.cfg.k, test.cfg.polynomials,
                                Len(test.cfg.polynomials),
                                test.max_decode_len_bits, test.cfg.do_tail,
                                test.cfg.recursive)} :
         /\ enc_res' = [rv |-> r.rv, call |-> "alloc_convcode"]
         /\ ce' = IF r.rv # 0 THEN NULL ELSE r.ce
         /\ pc' = IF r.rv # 0 THEN "alloc_failed"
                  ELSE IF r.fault THEN "fault" ELSE "allocated"
    /\ UNCHANGED <<enc_cb, dec_cb, test, encoded, uncertainty, fed, dec_res, blk>>

(* a message encoded on the codec alloc_convcode returned *)
EncodeOnCodec ==
    /\ pc = "allocated"
    /\ \E m \in Msgs :
         \E r \in {do_encode_data(ce, enc_cb, m)} :
           /\ ce' = r.ce
           /\ enc_cb' = r.cb
           /\ encoded' = LogBits(r.cb.log)
           /\ test' = [test EXCEPT !.decoded = m]
           /\ enc_res' = [rv |-> r.rv, call |-> "convencode_finish"]
    /\ pc' = "encoded"
    /\ UNCHANGED <<dec_cb, uncertainty, fed, dec_res, blk>>

NextSetup == SetupCodec \/ AllocCodec \/ EncodeOnCodec

SpecSetup == InitSetup /\ [][NextSetup]_vars

(* the parameters are in the documented ranges *)
ValidConfig ==
    /\ test.cfg.k \in 1..CONVCODE_MAX_K
    /\ Len(test.cfg.polynomials) \in 1..CONVCODE_MAX_POLYNOMIALS

(* C13: setup_convcode1 returns nonzero and leaves the structure alone,
   and alloc_convcode returns NULL, for every k outside 1..16, k = 0 and
   k = 17 included, and for every number of polynomials outside 1..16;
   they succeed for every k and number of polynomials inside 1..16 *)
C13_ConfigValidation ==
    /\ pc = "setup" =>
         /\ enc_res.rv = 0 <=> ValidConfig
         /\ enc_res.rv # 0 => ce = Uninitialised
    /\ pc \in {"alloc_failed", "fault", "allocated"} =>
         (enc_res.rv = 0 <=> ValidConfig)

(* C14: alloc_convcode with max_decode_len_bits = 0 and valid parameters
   returns a codec without touching the decoder's buffers, which it did not
   allocate, and the codec encodes every message as a codec allocated with
   a decoder does *)
C14_EncodeOnly ==
    (test.max_decode_len_bits = 0 /\ ValidConfig) =>
        /\ pc # "fault"
        /\ pc = "encoded" => encoded = Codeword(test.cfg, test.decoded)

(* ------------------------------------------------------------------ *)
(* The state the encoder is left in.                                    *)
(* ------------------------------------------------------------------ *)

(* the session, or the block encode after it, has encoded the whole
   message and the tail *)
EncodedAll == pc \in {"enc_done", "enc_blocked"}

(* C19: with do_tail the encoder is in state 0 after convencode_finish and
   after convencode_block, for every message, start state and
   configuration, recursive ones included *)
C19_TailFlush == (EncodedAll /\ test.cfg.do_tail) => ce.enc_state = 0

(* the tail flushes the shift register of a non-recursive code *)
TailFlushNonRecursive ==
    (EncodedAll /\ test.cfg.do_tail /\ ~test.cfg.recursive) => ce.enc_state = 0

(* the last k - 1 bits of m as a state, the newest bit in the low bit *)
LastBitsState(cfg, m) ==
    BitsToInt([i \in 1..(cfg.k - 1) |-> m[Len(m) + 1 - i]])

(* the start state is the one made of the last k - 1 message bits *)
TailBiting ==
    /\ ~test.cfg.do_tail /\ ~test.cfg.recursive
    /\ Len(test.decoded) >= test.cfg.k - 1
    /\ test.start_state = LastBitsState(test.cfg, test.decoded)

(* C20: without a tail, on a non-recursive codec, a message of at least
   k - 1 bits encoded from the start state made of its last k - 1 bits
   leaves the encoder in that start state *)
C20_TailBiting ==
    (EncodedAll /\ TailBiting) => ce.enc_state = test.start_state

(* a message ending in 1 0 was encoded from state 2, through the callback
   and as a block *)
C20_Witness ==
    /\ pc = "enc_blocked" /\ TailBiting
    /\ test.start_state = 2
    /\ blk.stream_enc_state = 2

(* ------------------------------------------------------------------ *)
(* Decoder sessions one after another on one codec: the session that    *)
(* alloc_convcode opened, then reinit_convdecode and another session.   *)
(* A session is convdecode_data in a few calls, then convdecode_finish; *)
(* it may be left unfinished, or end in an error.                       *)
(* ------------------------------------------------------------------ *)

(* max_decode_len_bits of the codec the sessions run on *)
SessDecodeLen == 4

(* the most calls of reinit_convdecode and convdecode_data, taken together,
   after alloc_convcode *)
MaxDecCalls == 4

SessCorpus ==
    {[k |-> 3, polynomials |-> p, do_tail |-> t, recursive |-> FALSE] :
        p \in {<<5, 7, 3>>, <<5, 7>>}, t \in BOOLEAN}

(* what a call delivers: a single bit; eight symbols and one bit more; more
   symbols than the trellis has room for *)
SessChunks(cfg) ==
    {<<1>>,
     Overlong(8 * Len(cfg.polynomials) + 1),
     Overlong(OverlongSymbols(cfg, SessDecodeLen) * Len(cfg.polynomials))}

(* the reliabilities that go with a call of n bits in a soft session *)
SessDoubts(soft, n) == IF soft THEN Ptr(SomeDoubts(n)) ELSE NULL

(* the (start_state, init_other_states) a caller passes: the defaults, a
   tail-biting first pass from another state, a state that does not exist *)
SessReinits(cfg) ==
    {<<CONVCODE_DEFAULT_START_STATE, CONVCODE_DEFAULT_INIT_VAL>>,
     <<1, U32(256)>>,
     <<Pow2(cfg.k - 1), CONVCODE_DEFAULT_INIT_VAL>>}

(* convdecode_finish on c runs its replay loop with a bound that wrapped
   around: ctrellis - extra_bits with ctrellis < extra_bits *)
RunsAway(c) == c.do_tail /\ c.ctrellis < c.k - 1

(* what convdecode_finish hands back; g is the value taken for the cells
   nothing wrote, 0 where none is read *)
FinishResult(r, g) ==
    [call |-> "finish", rv |-> r.rv, total_out_bits |-> r.total_out_bits,
     num_errs |-> r.num_errs, fault |-> r.fault,
     output |-> LogBits(r.cb.log), garbage |-> g]

InitDecSess ==
    \E cfg \in SessCorpus, soft \in BOOLEAN, fail_at \in 0..1 :
       /\ test = [cfg |-> cfg, ncalls |-> 0,
                  start_state |-> CONVCODE_DEFAULT_START_STATE,
                  init |-> CONVCODE_DEFAULT_INIT_VAL,
                  soft |-> soft, fail_at |-> fail_at, calls |-> <<>>,
                  prev |-> "none"]
       /\ ce = CapAlloc(cfg, SessDecodeLen)
       /\ enc_cb = NewSink(0)
       /\ dec_cb = NewSink(fail_at)
       /\ pc = "open"
       /\ encoded = <<>>
       /\ uncertainty = NULL
       /\ fed = 0
       /\ enc_res = NoRes
       /\ dec_res = NoRes
       /\ blk = NoRes

(* reinit_convdecode(ce, start_state, init_other_states) in whatever state
   the codec is; a successful call opens a session, whose output goes to a
   sink of its own *)
DecReinit ==
    /\ pc \in {"open", "failed", "finished"}
    /\ test.ncalls < MaxDecCalls
    /\ \E si \in SessReinits(test.cfg), soft \in BOOLEAN :
         \E r \in {reinit_convdecode(ce, si[1], si[2])} :
           /\ ce' = r.ce
           /\ dec_res' = [call |-> "reinit", rv |-> r.rv, before |-> ce,
                          start_state |-> si[1], init |-> si[2]]
           /\ IF r.rv # 0
              THEN /\ test' = [test EXCEPT !.ncalls = @ + 1]
                   /\ UNCHANGED <<pc, dec_cb>>
              ELSE /\ test' = [test EXCEPT !.ncalls = @ + 1,
                                           !.start_state = si[1],
                                           !.init = si[2],
                                           !.soft = soft,
                                           !.fail_at = 0,
                                           !.calls = <<>>,
                                           !.prev = pc]
                   /\ pc' = "open"
                   /\ dec_cb' = NewSink(0)
    /\ UNCHANGED <<enc_cb, encoded, uncertainty, fed, enc_res, blk>>

(* convdecode_data(ce, bytes, nbits, uncertainty) with a buffer of the
   caller's *)
DecData ==
    /\ pc = "open"
    /\ test.ncalls < MaxDecCalls
    /\ \E bits \in SessChunks(test.cfg) :
         \E r \in {convdecode_data(ce, PackBits(bits) \o <<0>>, Len(bits),
                                   SessDoubts(test.soft, Len(bits)))} :
           /\ ce' = r.ce
           /\ dec_res' = [call |-> "data", rv |-> r.rv]
           /\ test' = [test EXCEPT !.calls = Append(@, bits), !.ncalls = @ + 1]
           /\ pc' \in AfterStore(ce, r.ce, IF r.rv # 0 THEN "failed" ELSE "open")
    /\ UNCHANGED <<enc_cb, dec_cb, encoded, uncertainty, fed, enc_res, blk>>

(* convdecode_finish(ce, &total_out_bits, &num_errs) *)
DecFinish ==
    /\ pc = "open"
    /\ \E g \in Indeterminate :
         \E r \in {convdecode_finish(ce, dec_cb, g)} :
           /\ ce' = r.ce
           /\ dec_cb' = r.cb
           /\ dec_res' = FinishResult(r, IF RunsAway(ce) THEN g ELSE 0)
           /\ pc' = IF r.fault THEN "fault"
                    ELSE IF r.rv # 0 THEN "failed" ELSE "finished"
    /\ UNCHANGED <<enc_cb, test, encoded, uncertainty, fed, enc_res, blk>>

NextDecSess == DecReinit \/ DecData \/ DecFinish

SpecDecSess == InitDecSess /\ [][NextDecSess]_vars

(* the calls of a session one after the other, up to the first that fails *)
RECURSIVE feed_calls(_, _, _)
feed_calls(r, calls, soft) ==
    IF calls = <<>> \/ r.rv # 0 THEN r
    ELSE feed_calls(convdecode_data(r.ce, PackBits(Head(calls)) \o <<0>>,
                                    Len(Head(calls)),
                                    SessDoubts(soft, Len(Head(calls)))),
                    Tail(calls), soft)

(* the session of t on a codec that alloc_convcode has just returned *)
FreshFinish(t, g) ==
    FinishResult(
        convdecode_finish(
            feed_calls(reinit_convdecode(CapAlloc(t.cfg, SessDecodeLen),
                                         t.start_state, t.init),
                       t.calls, t.soft).ce,
            NewSink(t.fail_at), g),
        g)

(* the last call was reinit_convdecode *)
Reinited == "call" \in DOMAIN dec_res /\ dec_res.call = "reinit"

(* C15: reinit_convdecode with start_state >= num_states returns an error
   and changes nothing of the codec; with a valid start_state it returns 0
   and leaves curr_path_values[start_state] = 0, every other element of
   curr_path_values = init_other_states, ctrellis = 0, leftover_bits = 0 *)
C15_ReinitDecode ==
    Reinited =>
        IF dec_res.start_state >= ce.num_states
        THEN dec_res.rv # 0 /\ ce = dec_res.before
        ELSE /\ dec_res.rv = 0
             /\ DOMAIN ce.curr_path_values = 0..(ce.num_states - 1)
             /\ \A i \in 0..(ce.num_states - 1) :
                    ce.curr_path_values[i]
                        = IF i = dec_res.start_state THEN U32(0)
                          ELSE dec_res.init
             /\ ce.ctrellis = 0
             /\ ce.leftover_bits = 0

(* a refused reinit_convdecode in the middle of a session that has filled
   trellis columns and holds a leftover bit *)
C15_Witness ==
    /\ Reinited /\ dec_res.rv # 0
    /\ pc = "open"
    /\ ce.ctrellis > 0 /\ ce.leftover_bits > 0

(* convdecode_finish was the last call *)
Finished == "call" \in DOMAIN dec_res /\ dec_res.call = "finish"

(* C17: what convdecode_finish delivers (decoded bits, total_out_bits,
   num_errs, return value) is what the same session delivers on a codec
   fresh from alloc_convcode, whatever sessions the codec has been through
   before the reinit_convdecode *)
C17_ReinitRestores ==
    Finished => dec_res = FreshFinish(test, dec_res.garbage)

(* the same for the sessions that have received their k - 1 tail symbols,
   so that the replay loop of convdecode_finish has a bound *)
ReinitRestoresBoundedReplay ==
    (Finished /\ ~RunsAway(ce)) => dec_res = FreshFinish(test, 0)

(* ------------------------------------------------------------------ *)
(* Encoder sessions one after another on one codec: the session that    *)
(* alloc_convcode opened, then reinit_convencode and another session.   *)
(* A session is convencode_data in a few calls, then convencode_finish, *)
(* or convencode_block; it may be left unfinished, or be ended by the   *)
(* output callback.                                                     *)
(* ------------------------------------------------------------------ *)

(* the most calls of reinit_convencode and convencode_data, taken
   together, after alloc_convcode *)
MaxEncCalls == 3

EncSessCorpus ==
    {[k |-> 3, polynomials |-> p, do_tail |-> t, recursive |-> FALSE] :
        p \in {<<5, 7, 3>>, <<5, 7>>}, t \in BOOLEAN}
    \cup
    {[k |-> 3, polynomials |-> <<5, 5>>, do_tail |-> t, recursive |-> TRUE] :
        t \in BOOLEAN}

(* what a call delivers: one bit, two bits, nine bits *)
EncChunks == {<<1>>, <<0, 1>>, <<1, 0, 1, 1, 0, 1, 0, 0, 1>>}

InitEncSess ==
    \E cfg \in EncSessCorpus, per_symbol \in BOOLEAN, fail_at \in 0..1 :
       /\ test = [cfg |-> cfg, per_symbol |-> per_symbol, ncalls |-> 0,
                  start_state |-> CONVCODE_DEFAULT_START_STATE,
                  fail_at |-> fail_at, calls |-> <<>>, prev |-> "none"]
       /\ ce = set_encode_output_per_symbol(Alloc(cfg), per_symbol)
       /\ enc_cb = NewSink(fail_at)
       /\ dec_cb = NewSink(0)
       /\ pc = "open"
       /\ encoded = <<>>
       /\ uncertainty = NULL
       /\ fed = 0
       /\ enc_res = NoRes
       /\ dec_res = NoRes
       /\ blk = NoRes

(* reinit_convencode(ce, start_state) in whatever state the codec is; the
   session it opens has a sink of its own *)
SessEncReinit ==
    /\ pc \in {"open", "failed", "finished"}
    /\ test.ncalls < MaxEncCalls
    /\ \E s \in StartStates(test.cfg), fail_at \in 0..1 :
         /\ ce' = reinit_convencode(ce, s)
         /\ enc_cb' = NewSink(fail_at)
         /\ test' = [test EXCEPT !.ncalls = @ + 1, !.start_state = s,
                                 !.fail_at = fail_at, !.calls = <<>>,
                                 !.prev = pc]
    /\ enc_res' = [rv |-> 0, call |-> "reinit"]
    /\ pc' = "open"
    /\ UNCHANGED <<dec_cb, encoded, uncertainty, fed, dec_res, blk>>

(* convencode_data(ce, bytes, nbits) with a buffer of the caller's *)
SessEncData ==
    /\ pc = "open"
    /\ test.ncalls < MaxEncCalls
    /\ \E bits \in EncChunks :
         \E r \in {convencode_data(ce, enc_cb, PackBits(bits), Len(bits))} :
           /\ ce' = r.ce
           /\ enc_cb' = r.cb
           /\ enc_res' = [rv |-> r.rv, call |-> "data"]
           /\ test' = [test EXCEPT !.calls = Append(@, bits), !.ncalls = @ + 1]
           /\ pc' = IF r.rv # 0 THEN "failed" ELSE "open"
    /\ UNCHANGED <<dec_cb, encoded, uncertainty, fed, dec_res, blk>>

(* convencode_finish(ce, &total_out_bits) *)
SessEncFinish ==
    /\ pc = "open"
    /\ \E r \in {convencode_finish(ce, enc_cb)} :
           /\ ce' = r.ce
           /\ enc_cb' = r.cb
           /\ enc_res' = [rv |-> r.rv, call |-> "finish",
                          total_out_bits |-> r.total_out_bits]
           /\ pc' = IF r.rv # 0 THEN "failed" ELSE "finished"
    /\ UNCHANGED <<dec_cb, test, encoded, uncertainty, fed, dec_res, blk>>

(* convencode_block(ce, bytes, nbits, outbytes) into a zeroed buffer, at
   the start of a session *)
SessEncBlock ==
    /\ pc = "open"
    /\ test.calls = <<>>
    /\ \E bits \in EncChunks :
         \E r \in {convencode_block(ce, PackBits(bits), Len(bits),
                                    ZeroBytes(CodedLen(test.cfg, Len(bits))))} :
           /\ ce' = r.ce
           /\ blk' = [rv |-> 0, outbytes |-> r.outbytes]
           /\ test' = [test EXCEPT !.calls = <<bits>>]
    /\ enc_res' = [rv |-> 0, call |-> "block"]
    /\ pc' = "finished"
    /\ UNCHANGED <<enc_cb, dec_cb, encoded, uncertainty, fed, dec_res>>

NextEncSess == SessEncReinit \/ SessEncData \/ SessEncFinish \/ SessEncBlock

SpecEncSess == InitEncSess /\ [][NextEncSess]_vars

(* the convencode_data calls of a session one after the other, up to the
   first that fails *)
RECURSIVE encode_calls(_, _)
encode_calls(r, calls) ==
    IF calls = <<>> \/ r.rv # 0 THEN r
    ELSE encode_calls(convencode_data(r.ce, r.cb, PackBits(Head(calls)),
                                      Len(Head(calls))),
                      Tail(calls))

(* the codec alloc_convcode returns for t, after reinit_convencode *)
FreshEncoder(t) ==
    reinit_convencode(set_encode_output_per_symbol(Alloc(t.cfg), t.per_symbol),
                      t.start_state)

(* the data calls of the session of t on that codec *)
FreshData(t) ==
    encode_calls([ce |-> FreshEncoder(t), cb |-> NewSink(t.fail_at), rv |-> 0],
                 t.calls)

(* what the caller has got from the session: the callback invocations,
   the last return value, total_out_bits after convencode_finish *)
Delivery(cb, rv, total_out_bits) ==
    [log |-> cb.log, rv |-> rv, total_out_bits |-> total_out_bits]

FinishDelivery(r) == Delivery(r.cb, r.rv, r.total_out_bits)

DataDelivery(r) == Delivery(r.cb, r.rv, Unset)

BlockOutput(t) ==
    convencode_block(FreshEncoder(t), PackBits(t.calls[1]), Len(t.calls[1]),
                     ZeroBytes(CodedLen(t.cfg, Len(t.calls[1])))).outbytes

(* C16: the coded stream and total_out_bits of an encode session depend
   only on the configuration, the output mode, the start state and the
   message: they are those of the same session on a codec fresh from
   alloc_convcode, whatever sessions the codec has been through before the
   reinit_convencode, sessions ended by the callback included *)
C16_EncoderDeterminism ==
    /\ (pc \in {"open", "failed", "finished"} /\ enc_res.rv # Unset) =>
         /\ enc_res.call = "data" =>
                Delivery(enc_cb, enc_res.rv, Unset) = DataDelivery(FreshData(test))
         /\ enc_res.call = "finish" =>
                Delivery(enc_cb, enc_res.rv, enc_res.total_out_bits)
                    = FinishDelivery(convencode_finish(FreshData(test).ce,
                                                       FreshData(test).cb))
         /\ enc_res.call = "block" => blk.outbytes = BlockOutput(test)

(* a session finished after reinit_convencode on a codec whose session
   before was ended by the callback *)
C16_Witness ==
    /\ pc = "finished" /\ enc_res.call = "finish"
    /\ test.prev = "failed"
    /\ test.start_state = 2
    /\ Len(test.calls) = 1 /\ Len(test.calls[1]) = 9
    /\ enc_res.total_out_bits > 8

(* ------------------------------------------------------------------ *)
(* Encoding and decoding on one codec, the calls of the two sides in    *)
(* any order.  Next to the codec, each side is run alone on a codec of  *)
(* its own: blk.enc_alone sees the encoder calls only, blk.dec_alone    *)
(* the decoder calls only.                                              *)
(* ------------------------------------------------------------------ *)

(* the most calls made on the codec after alloc_convcode *)
MaxMixCalls == 4

MixCorpus ==
    {[k |-> 3, polynomials |-> <<5, 7, 3>>, do_tail |-> FALSE, recursive |-> FALSE],
     [k |-> 3, polynomials |-> <<5, 5>>, do_tail |-> TRUE, recursive |-> TRUE]}

(* message bits for a convencode_data or convencode_block call *)
MixMsgs == {<<1>>, <<0, 1, 1, 0, 1, 0, 0, 1, 1>>}

(* coded bits for a convdecode_data or convdecode_block call: a single
   bit, eight symbols and one bit more *)
MixStreams(cfg) == {<<1>>, Overlong(8 * Len(cfg.polynomials) + 1)}

(* the encoder's fields of struct convcode *)
EncPart(c) == [enc_state |-> c.enc_state, enc_out |-> c.enc_out]

(* the decoder's fields *)
DecPart(c) ==
    [dec_out |-> c.dec_out, trellis |-> c.trellis, ctrellis |-> c.ctrellis,
     curr_path_values |-> c.curr_path_values,
     next_path_values |-> c.next_path_values,
     leftover_bits |-> c.leftover_bits,
     leftover_bits_data |-> c.leftover_bits_data,
     leftover_uncertainty |-> c.leftover_uncertainty]

(* the fields setup fills and both sides read *)
Tables(c) ==
    [convert |-> c.convert, next_state |-> c.next_state, k |-> c.k,
     num_states |-> c.num_states, num_polys |-> c.num_polys,
     polys |-> c.polys, do_tail |-> c.do_tail, recursive |-> c.recursive,
     uncertainty_100 |-> c.uncertainty_100, trellis_size |-> c.trellis_size]

(* one side of the run: its codec, its sink, what its last call returned *)
Side(c, cb, res) == [ce |-> c, cb |-> cb, res |-> res]

InitMix ==
    \E cfg \in MixCorpus :
       /\ test = [cfg |-> cfg, ncalls |-> 0, enc |-> "open", dec |-> "open",
                  switches |-> 0]
       /\ ce = Alloc(cfg)
       /\ enc_cb = NewSink(0)
       /\ dec_cb = NewSink(0)
       /\ pc = "mix"
       /\ encoded = <<>>
       /\ uncertainty = NULL
       /\ fed = 0
       /\ enc_res = NoRes
       /\ dec_res = NoRes
       /\ blk = [enc_alone |-> Side(Alloc(cfg), NewSink(0), NoRes),
                 dec_alone |-> Side(Alloc(cfg), NewSink(0), NoRes),
                 before |-> Alloc(cfg), side |-> "none"]

(* the bookkeeping of a call of side s that leaves the session of that side
   in phase ph *)
Called(s, ph) ==
    [test EXCEPT !.ncalls = @ + 1,
                 !.switches = IF blk.side \in {"none", s} THEN @ ELSE @ + 1,
                 ![s] = ph]

(* an encoder call: c, cb, res on the codec, a on the encoder's own *)
EncStep(c, cb, res, a, ph) ==
    /\ ce' = c
    /\ enc_cb' = cb
    /\ enc_res' = res
    /\ blk' = [blk EXCEPT !.enc_alone = a, !.before = ce, !.side = "enc"]
    /\ test' = Called("enc", ph)
    /\ UNCHANGED <<dec_cb, dec_res, pc, encoded, uncertainty, fed>>

(* a decoder call: c, cb, res on the codec, a on the decoder's own *)
DecStep(c, cb, res, a, ph) ==
    /\ ce' = c
    /\ dec_cb' = cb
    /\ dec_res' = res
    /\ blk' = [blk EXCEPT !.dec_alone = a, !.before = ce, !.side = "dec"]
    /\ test' = Called("dec", ph)
    /\ pc' = IF "fault" \in DOMAIN res /\ res.fault THEN "fault" ELSE pc
    /\ UNCHANGED <<enc_cb, enc_res, encoded, uncertainty, fed>>

CanCall == pc = "mix" /\ test.ncalls < MaxMixCalls

DataRes(r) == [rv |-> r.rv, call |-> "data"]

EncFinishRes(r) ==
    [rv |-> r.rv, call |-> "finish", total_out_bits |-> r.total_out_bits]

EncBlockRes(r) == [rv |-> 0, call |-> "block", outbytes |-> r.outbytes]

DecBlockRes(r) ==
    [rv |-> r.rv, call |-> "block", outbytes |-> r.outbytes,
     num_errs |-> r.num_errs, output_uncertainty |-> r.output_uncertainty]

(* reinit_convencode(ce, start_state) *)
MixEncReinit ==
    /\ CanCall
    /\ \E s \in {2} :
         EncStep(reinit_convencode(ce, s), NewSink(0),
                 [rv |-> 0, call |-> "reinit"],
                 Side(reinit_convencode(blk.enc_alone.ce, s), NewSink(0),
                      [rv |-> 0, call |-> "reinit"]),
                 "open")

(* convencode_data(ce, bytes, nbits) *)
MixEncData ==
    /\ CanCall /\ test.enc = "open"
    /\ \E m \in MixMsgs :
         \E r \in {convencode_data(ce, enc_cb, PackBits(m), Len(m))},
            a \in {convencode_data(blk.enc_alone.ce, blk.enc_alone.cb,
                                   PackBits(m), Len(m))} :
           EncStep(r.ce, r.cb, DataRes(r), Side(a.ce, a.cb, DataRes(a)),
                   IF r.rv # 0 THEN "done" ELSE "open")

(* convencode_finish(ce, &total_out_bits) *)
MixEncFinish ==
    /\ CanCall /\ test.enc = "open"
    /\ \E r \in {convencode_finish(ce, enc_cb)},
          a \in {convencode_finish(blk.enc_alone.ce, blk.enc_alone.cb)} :
         EncStep(r.ce, r.cb, EncFinishRes(r),
                 Side(a.ce, a.cb, EncFinishRes(a)), "done")

(* convencode_block(ce, bytes, nbits, outbytes) into a zeroed buffer *)
MixEncBlock ==
    /\ CanCall /\ test.enc = "open"
    /\ \E m \in MixMsgs :
         \E r \in {convencode_block(ce, PackBits(m), Len(m),
                                    ZeroBytes(CodedLen(test.cfg, Len(m))))},
            a \in {convencode_block(blk.enc_alone.ce, PackBits(m), Len(m),
                                    ZeroBytes(CodedLen(test.cfg, Len(m))))} :
           EncStep(r.ce, enc_cb, EncBlockRes(r),
                   Side(a.ce, blk.enc_alone.cb, EncBlockRes(a)), "done")

(* reinit_convdecode(ce, start_state, init_other_states) *)
MixDecReinit ==
    /\ CanCall
    /\ \E si \in {<<CONVCODE_DEFAULT_START_STATE, CONVCODE_DEFAULT_INIT_VAL>>,
                  <<1, U32(256)>>} :
         \E r \in {reinit_convdecode(ce, si[1], si[2])},
            a \in {reinit_convdecode(blk.dec_alone.ce, si[1], si[2])} :
           DecStep(r.ce, NewSink(0), [rv |-> r.rv, call |-> "reinit"],
                   Side(a.ce, NewSink(0), [rv |-> a.rv, call |-> "reinit"]),
                   "open")

(* convdecode_data(ce, bytes, nbits, NULL) *)
MixDecData ==
    /\ CanCall /\ test.dec = "open"
    /\ \E bits \in MixStreams(test.cfg) :
         \E r \in {convdecode_data(ce, PackBits(bits) \o <<0>>, Len(bits), NULL)},
            a \in {convdecode_data(blk.dec_alone.ce, PackBits(bits) \o <<0>>,
                                   Len(bits), NULL)} :
           DecStep(r.ce, dec_cb, DataRes(r),
                   Side(a.ce, blk.dec_alone.cb, DataRes(a)),
                   IF r.rv # 0 THEN "done" ELSE "open")

(* convdecode_finish(ce, &total_out_bits, &num_errs) *)
MixDecFinish ==
    /\ CanCall /\ test.dec = "open"
    /\ \E g \in IF RunsAway(ce) THEN Indeterminate ELSE {0} :
         \E r \in {convdecode_finish(ce, dec_cb, g)},
            a \in {convdecode_finish(blk.dec_alone.ce, blk.dec_alone.cb, g)} :
           DecStep(r.ce, r.cb, FinishResult(r, g),
                   Side(a.ce, a.cb, FinishResult(a, g)), "done")

(* convdecode_block(ce, bytes, nbits, NULL, outbytes, output_uncertainty)
   into a zeroed buffer, on a decoder that holds no data: the traceback
   reads the symbol of every trellis column from the bytes of this call *)
MixDecBlock ==
    /\ CanCall /\ test.dec = "open"
    /\ ce.ctrellis = 0 /\ ce.leftover_bits = 0
    /\ \E bits \in MixStreams(test.cfg) :
         \E r \in {convdecode_block(ce, PackBits(bits) \o <<0>>, Len(bits),
                                    NULL, ZeroBytes(Len(bits)), TRUE)},
            a \in {convdecode_block(blk.dec_alone.ce, PackBits(bits) \o <<0>>,
                                    Len(bits), NULL, ZeroBytes(Len(bits)),
                                    TRUE)} :
           DecStep(r.ce, dec_cb, DecBlockRes(r),
                   Side(a.ce, blk.dec_alone.cb, DecBlockRes(a)), "done")

NextMix ==
    \/ MixEncReinit \/ MixEncData \/ MixEncFinish \/ MixEncBlock
    \/ MixDecReinit \/ MixDecData \/ MixDecFinish \/ MixDecBlock

SpecMix == InitMix /\ [][NextMix]_vars

(* C18: on one codec, with the encoder's and the decoder's calls in any
   order, each side delivers what it delivers when its calls are made
   alone; an encoder call changes no field of the decoder, a decoder call
   no field of the encoder, and no call changes the tables *)
C18_Independence ==
    /\ EncPart(ce) = EncPart(blk.enc_alone.ce)
    /\ enc_cb = blk.enc_alone.cb
    /\ enc_res = blk.enc_alone.res
    /\ DecPart(ce) = DecPart(blk.dec_alone.ce)
    /\ dec_cb = blk.dec_alone.cb
    /\ dec_res = blk.dec_alone.res
    /\ blk.side = "enc" => DecPart(ce) = DecPart(blk.before)
    /\ blk.side = "dec" => EncPart(ce) = EncPart(blk.before)
    /\ Tables(ce) = Tables(Alloc(test.cfg))

(* the two sessions went on in turns: decoder data, encoder data, then the
   decoder finished and the encoder finished *)
C18_Witness ==
    /\ test.switches = 3
    /\ blk.side = "enc"
    /\ enc_res.call = "finish" /\ enc_res.total_out_bits > 8
    /\ dec_res.call = "finish" /\ dec_res.total_out_bits > 0
    /\ ~dec_res.fault

(* ------------------------------------------------------------------ *)
(* Tail biting, convcode.h:93-123: no tail, the encoder starts in the   *)
(* state made of the last k - 1 message bits; the decoder first runs    *)
(* from state 0 with the other states at 256, then again from the state *)
(* made of the last bits the first pass delivered.                      *)
(* ------------------------------------------------------------------ *)

(* bound: the longest tail-biting message *)
MaxBiteLen == 6

(* init_other_states of the first decoder pass *)
BiteInitVal == 256

BiteCorpus ==
    {[k |-> 3, polynomials |-> <<5, 7>>, do_tail |-> FALSE, recursive |-> FALSE],
     [k |-> 3, polynomials |-> <<5, 7, 3>>, do_tail |-> FALSE, recursive |-> FALSE],
     [k |-> 4, polynomials |-> <<13, 15>>, do_tail |-> FALSE, recursive |-> FALSE]}

BiteMsgs(cfg) == UNION {BitStrings(n) : n \in (cfg.k - 1)..MaxBiteLen}

(* the last n elements of s *)
LastBits(s, n) == SubSeq(s, Len(s) - n + 1, Len(s))

InitBite ==
    \E cfg \in BiteCorpus :
      \E m \in BiteMsgs(cfg) :
       /\ test = [cfg |-> cfg, decoded |-> m,
                  start_state |-> LastBitsState(cfg, m), garbage |-> 0]
       /\ ce = Alloc(cfg)
       /\ enc_cb = NewSink(0)
       /\ dec_cb = NewSink(0)
       /\ pc = "encode"
       /\ encoded = <<>>
       /\ uncertainty = NULL
       /\ fed = 0
       /\ enc_res = NoRes
       /\ dec_res = NoRes
       /\ blk = NoRes

(* reinit_convencode(ce, start_state), then the message is encoded *)
BiteEncode ==
    /\ pc = "encode"
    /\ \E r \in {do_encode_data(reinit_convencode(ce, test.start_state),
                                enc_cb, test.decoded)} :
           /\ ce' = r.ce
           /\ enc_cb' = r.cb
           /\ enc_res' = [rv |-> r.rv, total_out_bits |-> r.total_out_bits]
           /\ encoded' = LogBits(r.cb.log)
    /\ fed' = Len(test.decoded)
    /\ pc' = "first_pass"
    /\ UNCHANGED <<dec_cb, test, uncertainty, dec_res, blk>>

(* what a decoder pass hands back *)
PassResult(r) ==
    [rv |-> r.rv, total_out_bits |-> r.total_out_bits,
     num_errs |-> r.num_errs, fault |-> r.fault,
     output |-> LogBits(r.cb.log)]

(* reinit_convdecode(ce, 0, 256), then the coded stream is decoded *)
BiteFirstPass ==
    /\ pc = "first_pass"
    /\ \E r \in {do_decode_data(
                     reinit_convdecode(ce, CONVCODE_DEFAULT_START_STATE,
                                       U32(BiteInitVal)).ce,
                     NewSink(0), encoded, 0, NULL, test.garbage)} :
           /\ ce' = r.ce
           /\ dec_cb' = r.cb
           /\ dec_res' = PassResult(r)
    /\ pc' = "second_pass"
    /\ UNCHANGED <<enc_cb, test, encoded, uncertainty, fed, enc_res, blk>>

(* reinit_convdecode(ce, the last k - 1 bits of the first pass,
   CONVCODE_DEFAULT_INIT_VAL), then the coded stream is decoded again *)
BiteSecondPass ==
    /\ pc = "second_pass"
    /\ \E r \in {do_decode_data(
                     reinit_convdecode(ce,
                         LastBitsState(test.cfg, dec_res.output),
                         CONVCODE_DEFAULT_INIT_VAL).ce,
                     NewSink(0), encoded, 0, NULL, test.garbage)} :
           /\ ce' = r.ce
           /\ dec_cb' = r.cb
           /\ blk' = PassResult(r)
    /\ pc' = "done"
    /\ UNCHANGED <<enc_cb, test, encoded, uncertainty, fed, enc_res, dec_res>>

NextBite == BiteEncode \/ BiteFirstPass \/ BiteSecondPass

SpecBite == InitBite /\ [][NextBite]_vars

FirstPassDone == pc \in {"second_pass", "done"}

(* C21: after the first pass of the decoder, from state 0 with the other
   states at 256, the last k - 1 bits delivered are the last k - 1 bits
   of the message *)
C21_FirstPass ==
    FirstPassDone =>
        LastBits(dec_res.output, test.cfg.k - 1)
            = LastBits(test.decoded, test.cfg.k - 1)

(* the code word of x, fed to the encoder from state 0, differs from the
   coded stream in this many bits *)
BiteDist(x) == U32(PathDist(x))

(* C21 as amended: the first pass delivers a message of the length of m
   whose code word from state 0 is nearest to the coded stream, and num_errs
   is its distance; when the last k - 1 bits of m are 0 this message is m *)
C21_FirstPassNearest ==
    FirstPassDone =>
        /\ dec_res.rv = 0 /\ ~dec_res.fault
        /\ Len(dec_res.output) = Len(test.decoded)
        /\ BiteDist(dec_res.output) = dec_res.num_errs
        /\ \A x \in BitStrings(Len(test.decoded)) :
               ~U32Lt(BiteDist(x), dec_res.num_errs)
        /\ test.start_state = 0 => dec_res.output = test.decoded

(* the encoder started in state 1, and the first pass delivered a message
   that ends in other bits than m does *)
C21_Witness ==
    /\ FirstPassDone
    /\ test.start_state = 1
    /\ dec_res.num_errs = U32(1)
    /\ LastBits(dec_res.output, test.cfg.k - 1)
           # LastBits(test.decoded, test.cfg.k - 1)

(* ---- the output uncertainties of convdecode_block ---- *)

(* convdecode_block returned; its decoder was reinitialised by
   reinit_convcode just before *)
BlockDecoded == pc = "done" /\ blk.rv = 0

(* the state with the least final path value, the lowest on a tie *)
EndState ==
    CHOOSE s \in 0..(ce.num_states - 1) :
        /\ \A t \in 0..(ce.num_states - 1) :
               ~U32Lt(ce.curr_path_values[t], ce.curr_path_values[s])
        /\ \A t \in 0..(s - 1) :
               U32Lt(ce.curr_path_values[s], ce.curr_path_values[t])

(* the state of the chosen path before column i; after the last column
   for i = ctrellis *)
RECURSIVE ChosenState(_)
ChosenState(i) ==
    IF i >= ce.ctrellis THEN EndState
    ELSE ce.trellis[trellis_entry(ce, i, ChosenState(i + 1))]

(* the symbol the encoder puts out on the chosen path in column i *)
ChosenSymbol(i) ==
    ce.convert[get_prev_bit(ce, ChosenState(i), ChosenState(i + 1)) + 1]
              [ChosenState(i)]

(* what coded bit j of column i adds to the path value when the path's
   symbol is cand *)
BitMetric(cand, i, j) ==
    LET at == i * ce.num_polys + j
        agree == (cand \div Pow2(j)) % 2 = encoded[at + 1]
    IN  IF uncertainty.null THEN (IF agree THEN 0 ELSE 1)
        ELSE IF agree THEN Deref(uncertainty, at)
        ELSE ce.uncertainty_100 - Deref(uncertainty, at)

RECURSIVE SymbolMetric(_, _, _)
SymbolMetric(cand, i, n) ==
    IF n = 0 THEN 0 ELSE SymbolMetric(cand, i, n - 1) + BitMetric(cand, i, n - 1)

(* the branch metric of the chosen path in column i *)
BranchMetric(i) == SymbolMetric(ChosenSymbol(i), i, ce.num_polys)

(* the branch metrics of the chosen path over the columns from..to *)
RECURSIVE BranchSum(_, _)
BranchSum(from, to) ==
    IF to < from THEN 0 ELSE BranchSum(from, to - 1) + BranchMetric(to)

(* the path value reinit_convcode gave state s *)
InitMetric(s) ==
    IF s = CONVCODE_DEFAULT_START_STATE THEN U32(0)
    ELSE CONVCODE_DEFAULT_INIT_VAL

(* the number of output bits: the columns that are not tail columns *)
BlockOutBits ==
    IF ~ce.do_tail THEN ce.ctrellis
    ELSE IF ce.ctrellis >= ce.k - 1 THEN ce.ctrellis - (ce.k - 1)
    ELSE 0

(* C22: output_uncertainty[i] of convdecode_block is the initial value of
   the chosen path's start state plus the branch metrics of the chosen path
   over the columns 0..i; the values do not decrease with i, the last one
   plus the branch metrics of the tail columns is num_errs, and no entry is
   written for a tail column *)
C22_CumulativeUncertainty ==
    BlockDecoded =>
        /\ DOMAIN blk.output_uncertainty = 0..(BlockOutBits - 1)
        /\ \A i \in 0..(BlockOutBits - 1) :
               blk.output_uncertainty[i]
                   = U32Add(InitMetric(ChosenState(0)), U32(BranchSum(0, i)))
        /\ \A i \in 1..(BlockOutBits - 1) :
               ~U32Lt(blk.output_uncertainty[i], blk.output_uncertainty[i - 1])
        /\ BlockOutBits > 0 =>
               U32Add(blk.output_uncertainty[BlockOutBits - 1],
                      U32(BranchSum(BlockOutBits, ce.ctrellis - 1)))
                   = blk.num_errs

(* a block decode with tail of a stream with two flipped bits: the values
   rise from one output bit to the next, and the tail columns add to them *)
C22_Witness ==
    /\ BlockDecoded
    /\ ce.do_tail
    /\ BlockOutBits = 2
    /\ U32Lt(blk.output_uncertainty[0], blk.output_uncertainty[1])
    /\ U32Lt(blk.output_uncertainty[1], blk.num_errs)

(* ------------------------------------------------------------------ *)
(* The interleaver, interleave.c.                                       *)
(* ------------------------------------------------------------------ *)

(* fault injection: the remainder itself is taken as the last column that
   reaches into the last row *)
interleaver_init_rem(interleave, data, total_bits) ==
    [interleave |-> interleave,
     total_bits |-> total_bits,
     num_rows |-> IF total_bits % interleave = 0
                  THEN total_bits \div interleave
                  ELSE (total_bits \div interleave) + 1,
     data |-> data,
     row |-> 0,
     col |-> 0,
     last_full_col |-> IF total_bits % interleave = 0 THEN interleave
                       ELSE total_bits % interleave]

(* interleaver_init(di, interleave, data, total_bits) *)
interleaver_init(interleave, data, total_bits) ==
    [interleave |-> interleave,
     total_bits |-> total_bits,
     num_rows |-> IF total_bits % interleave = 0
                  THEN total_bits \div interleave
                  ELSE (total_bits \div interleave) + 1,
     data |-> data,
     row |-> 0,
     col |-> 0,
     last_full_col |-> IF total_bits % interleave = 0 THEN interleave
                       ELSE (total_bits % interleave) - 1]

(* the bit position of the cursor *)
interleaver_bitpos(di) == di.row * di.interleave + di.col

interleaver_calc_pos(di) ==
    [byte |-> interleaver_bitpos(di) \div 8, bit |-> interleaver_bitpos(di) % 8]

(* fault injection: the row count is never lowered after the last column
   that reaches into the last row *)
interleaver_next_bit_full(di) ==
    IF di.row + 1 >= di.num_rows
    THEN [di EXCEPT !.col = @ + 1, !.row = 0]
    ELSE [di EXCEPT !.row = @ + 1]

interleaver_next_bit(di) ==
    IF di.row + 1 >= di.num_rows
    THEN [di EXCEPT !.num_rows = IF di.col = di.last_full_col THEN @ - 1 ELSE @,
                    !.col = @ + 1,
                    !.row = 0]
    ELSE [di EXCEPT !.row = @ + 1]

(* data[byte], data being an array of Len(data) bytes; an index beyond it
   is outside of the array *)
InArray(data, byte) == byte < Len(data)

(* interleave_bit(di): the bit at the cursor, and the cursor moved on *)
interleave_bit(di) ==
    LET at(pos) ==
            [rv |-> Shr(di.data[pos.byte + 1], pos.bit) % 2,
             di |-> interleaver_next_bit(di)]
    IN  at(interleaver_calc_pos(di))

(* fault injection: the byte is assigned, data[byte] = bitval << bit *)
deinterleave_bit_store(di, bitval) ==
    LET at(pos) ==
            interleaver_next_bit(
                [di EXCEPT !.data[pos.byte + 1] = Shl(bitval, pos.bit) % 256])
    IN  at(interleaver_calc_pos(di))

(* deinterleave_bit(di, bitval): data[byte] |= bitval << bit, in a uint8_t *)
deinterleave_bit(di, bitval) ==
    LET at(pos) ==
            interleaver_next_bit(
                [di EXCEPT !.data[pos.byte + 1] =
                               BitOr(@, Shl(bitval, pos.bit)) % 256])
    IN  at(interleaver_calc_pos(di))

(* fault injection: the bits are handed to the callback in the order of
   the buffer *)
interleave_loop_plain(di, i, out) ==
    [j \in 1..di.total_bits |-> Shr(di.data[((j - 1) \div 8) + 1], (j - 1) % 8) % 2]

(* the loop of interleave(): output(user_data, bit) for each of the bits
   i..total_bits-1; out is what the callback has received *)
RECURSIVE interleave_loop(_, _, _)
interleave_loop(di, i, out) ==
    IF i >= di.total_bits THEN out
    ELSE LET at(pos) ==
                 interleave_loop(interleaver_next_bit(di), i + 1,
                     Append(out, Shr(di.data[pos.byte + 1], pos.bit) % 2))
         IN  at(interleaver_calc_pos(di))

(* interleave(interleave, data, total_bits, output, user_data) *)
interleave(interleave_len, data, total_bits) ==
    interleave_loop(interleaver_init(interleave_len, data, total_bits), 0, <<>>)

(* ---- rand_test of interleave.c ---- *)

(* bound: the most bits of a buffer (len) *)
MaxTotalBits == 10

(* bound: the widest interleave (interleave_len) *)
MaxInterleaveLen == 12

(* bound: buffers of up to this many bits take every value *)
MaxAnyBits == 5

(* calloc(len / 8 + 1, 1) with the bits x stored low bit first *)
IlvBuf(x) ==
    [b \in 1..((Len(x) \div 8) + 1) |->
        BitsToInt([j \in 1..8 |->
            IF 8 * (b - 1) + j <= Len(x) THEN x[8 * (b - 1) + j] ELSE 0])]

(* the buffers of n bits: one bit set, every bit set, every second bit set,
   and for short buffers every value *)
IlvInputs(n) ==
    {[i \in 1..n |-> IF i = p THEN 1 ELSE 0] : p \in 1..n}
    \cup {[i \in 1..n |-> 1], [i \in 1..n |-> i % 2]}
    \cup (IF n <= MaxAnyBits THEN BitStrings(n) ELSE {})

InitIlv ==
    \E len \in 1..MaxTotalBits, interleave_len \in 1..MaxInterleaveLen :
      \E x \in IlvInputs(len) :
       /\ test = [len |-> len, interleave_len |-> interleave_len,
                  idata |-> IlvBuf(x), x |-> x]
       /\ blk = [di |-> Uninitialised, touched |-> <<>>, decrements |-> 0,
                 odata |-> IlvBuf([i \in 1..len |-> 0])]
       /\ encoded = <<>>
       /\ pc = "init"
       /\ ce = Uninitialised
       /\ enc_cb = NewSink(0)
       /\ dec_cb = NewSink(0)
       /\ uncertainty = NULL
       /\ fed = 0
       /\ enc_res = NoRes
       /\ dec_res = NoRes

(* interleaver_init(&di, interleave_len, idata, len), and later
   interleaver_init(&di, interleave_len, odata, len) *)
IlvInit ==
    /\ pc \in {"init", "init_out"}
    /\ blk' = [blk EXCEPT
                 !.di = interleaver_init(test.interleave_len,
                            IF pc = "init" THEN test.idata ELSE blk.odata,
                            test.len),
                 !.touched = <<>>,
                 !.decrements = 0]
    /\ pc' = IF pc = "init" THEN "interleave" ELSE "deinterleave"
    /\ fed' = 0
    /\ UNCHANGED <<ce, enc_cb, dec_cb, test, encoded, uncertainty, enc_res, dec_res>>

(* what a call that moved the cursor from di to d leaves in blk *)
Moved(d) ==
    [blk EXCEPT !.di = d,
                !.touched = Append(@, interleaver_bitpos(blk.di)),
                !.decrements = IF d.num_rows < blk.di.num_rows THEN @ + 1 ELSE @]

(* data[i] = interleave_bit(&di) *)
IlvBit ==
    /\ pc = "interleave"
    /\ IF ~InArray(blk.di.data, interleaver_calc_pos(blk.di).byte)
       THEN pc' = "fault" /\ UNCHANGED <<blk, encoded, fed>>
       ELSE \E r \in {interleave_bit(blk.di)} :
              /\ blk' = Moved(r.di)
              /\ encoded' = Append(encoded, r.rv)
              /\ fed' = fed + 1
              /\ pc' = IF fed + 1 < test.len THEN "interleave" ELSE "init_out"
    /\ UNCHANGED <<ce, enc_cb, dec_cb, test, uncertainty, enc_res, dec_res>>

(* deinterleave_bit(&di, data[i]) *)
DeilvBit ==
    /\ pc = "deinterleave"
    /\ IF ~InArray(blk.di.data, interleaver_calc_pos(blk.di).byte)
       THEN pc' = "fault" /\ UNCHANGED <<blk, fed>>
       ELSE \E d \in {deinterleave_bit(blk.di, encoded[fed + 1])} :
              /\ blk' = [Moved(d) EXCEPT !.odata = d.data]
              /\ fed' = fed + 1
              /\ pc' = IF fed + 1 < test.len THEN "deinterleave" ELSE "compare"
    /\ UNCHANGED <<ce, enc_cb, dec_cb, test, encoded, uncertainty, enc_res, dec_res>>

(* interleave(interleave_len, idata, len, out_bit, NULL): the callback's
   bits are kept in enc_res *)
IlvOneShot ==
    /\ pc = "compare"
    /\ enc_res' = [rv |-> 0,
                   bits |-> interleave(test.interleave_len, test.idata, test.len)]
    /\ pc' = "done"
    /\ UNCHANGED <<ce, enc_cb, dec_cb, test, encoded, uncertainty, fed, dec_res, blk>>

NextIlv == IlvInit \/ IlvBit \/ DeilvBit \/ IlvOneShot

SpecIlv == InitIlv /\ [][NextIlv]_vars

(* ---- C23 ---- *)

Deinterleaved == pc \in {"compare", "done"}

(* C23: the bits read with interleave_bit and written in the same order
   with deinterleave_bit into a zeroed buffer, after interleaver_init with
   the same interleave and total_bits, give the buffer they were read
   from *)
C23_InterleaveRoundTrip ==
    Deinterleaved => blk.odata = test.idata

(* eight bits in rows of three, the last row not full; only bit 6 is set,
   which is the third bit read *)
C23_Witness ==
    /\ Deinterleaved
    /\ test.len = 8 /\ test.interleave_len = 3
    /\ test.idata = <<64, 0>>
    /\ encoded = <<0, 0, 1, 0, 0, 0, 0, 0>>

(* ---- C24 ---- *)

(* C24: the bit positions of the calls of interleave_bit or
   deinterleave_bit since interleaver_init are pairwise distinct and below
   total_bits, after total_bits calls they are all of 0..total_bits-1, and
   num_rows was lowered at most once *)
C24_TraversalPermutation ==
    /\ pc # "fault"
    /\ \A i \in DOMAIN blk.touched :
           /\ blk.touched[i] \in 0..(test.len - 1)
           /\ \A j \in DOMAIN blk.touched : i # j => blk.touched[i] # blk.touched[j]
    /\ Len(blk.touched) = test.len =>
           {blk.touched[i] : i \in DOMAIN blk.touched} = 0..(test.len - 1)
    /\ blk.decrements <= 1

(* ten bits in rows of four were written by deinterleave_bit: two columns
   reach into the third row, and num_rows was lowered after them *)
C24_Witness ==
    /\ pc = "compare"
    /\ test.len = 10 /\ test.interleave_len = 4
    /\ Len(blk.touched) = 10
    /\ blk.decrements = 1
    /\ blk.di.num_rows = 2

(* ---- C25 ---- *)

(* position p comes before position q in the interleaved order: the
   columns in turn, each from the first row down *)
ColumnFirst(p, q, il) ==
    \/ p % il < q % il
    \/ p % il = q % il /\ p \div il < q \div il

(* the position of 0..n-1 that i others come before *)
NthPosition(i, n, il) ==
    CHOOSE p \in 0..(n - 1) :
        Cardinality({q \in 0..(n - 1) : ColumnFirst(q, p, il)}) = i

(* C25: the i-th bit of interleave_bit is the bit at the i-th position of
   0..total_bits-1 in the order of (position mod interleave, position div
   interleave), and interleave() hands its callback the same bits *)
C25_ColumnMajor ==
    /\ pc \in {"interleave", "init_out", "deinterleave", "compare", "done"} =>
           \A i \in 1..Len(encoded) :
               encoded[i]
                   = test.x[NthPosition(i - 1, test.len, test.interleave_len) + 1]
    /\ pc = "done" => enc_res.bits = encoded

(* eight bits in rows of three with bit 3 set: it is the second bit out,
   from interleave_bit and from interleave() *)
C25_Witness ==
    /\ pc = "done"
    /\ test.len = 8 /\ test.interleave_len = 3
    /\ test.x = <<0, 0, 0, 1, 0, 0, 0, 0>>
    /\ enc_res.bits = <<0, 1, 0, 0, 0, 0, 0, 0>>

(* ------------------------------------------------------------------ *)
(* A whole session of the encoder and one of the decoder in packed-byte *)
(* mode, call by call: convencode_data on pieces of the message, each   *)
(* piece in a buffer of its own, convencode_finish, then the coded      *)
(* stream in one convdecode_data call and convdecode_finish.            *)
(* ------------------------------------------------------------------ *)

(* bound: the longest message of a session *)
MaxOutLen == 11

(* codes of k = 3 with 1, 2, 9 and 16 polynomials *)
OutCorpus ==
    WideCorpus \cup
    {[k |-> 3, polynomials |-> <<5, 7>>, do_tail |-> t, recursive |-> FALSE] :
        t \in BOOLEAN}

(* the message lengths: none, one bit, around one byte, the longest *)
OutLens == {0, 1, 7, 8, 9, MaxOutLen}

(* a message of every length, and the message of ones *)
OutMsgs == UNION {{Overlong(n), [i \in 1..n |-> 1]} : n \in OutLens}

InitOut ==
    \E cfg \in OutCorpus, m \in OutMsgs :
       /\ test = [cfg |-> cfg, decoded |-> m, calls |-> 0]
       /\ ce = Alloc(cfg)
       /\ enc_cb = NewSink(0)
       /\ dec_cb = NewSink(0)
       /\ pc = "enc"
       /\ encoded = <<>>
       /\ uncertainty = NULL
       /\ fed = 0
       /\ enc_res = NoRes
       /\ dec_res = NoRes
       /\ blk = NoRes

(* convencode_data(ce, bytes, n) on the next n bits of the message, packed
   into a buffer that holds these bits only *)
OutEncData ==
    /\ pc = "enc"
    /\ \E n \in 1..(Len(test.decoded) - fed) :
         \E r \in {convencode_data(ce, enc_cb,
                                   PackBits(SubSeq(test.decoded, fed + 1, fed + n)),
                                   n)} :
           /\ ce' = r.ce
           /\ enc_cb' = r.cb
           /\ enc_res' = [rv |-> r.rv, call |-> "data"]
           /\ fed' = fed + n
    /\ test' = [test EXCEPT !.calls = @ + 1]
    /\ UNCHANGED <<dec_cb, pc, encoded, uncertainty, dec_res, blk>>

(* convencode_finish(ce, &total_out_bits); what the callback received is
   the coded stream *)
OutEncFinish ==
    /\ pc = "enc"
    /\ fed = Len(test.decoded)
    /\ \E r \in {convencode_finish(ce, enc_cb)} :
           /\ ce' = r.ce
           /\ enc_cb' = r.cb
           /\ enc_res' = [rv |-> r.rv, call |-> "finish",
                          total_out_bits |-> r.total_out_bits]
           /\ encoded' = LogBits(r.cb.log)
    /\ pc' = "dec"
    /\ UNCHANGED <<dec_cb, test, uncertainty, fed, dec_res, blk>>

(* convdecode_data(ce, bytes, nbits, NULL) on the whole coded stream *)
OutDecData ==
    /\ pc = "dec"
    /\ \E r \in {convdecode_data(ce, PackBits(encoded) \o <<0>>, Len(encoded),
                                 NULL)} :
           /\ ce' = r.ce
           /\ dec_res' = [rv |-> r.rv, call |-> "data"]
    /\ pc' = "dec_fed"
    /\ UNCHANGED <<enc_cb, dec_cb, test, encoded, uncertainty, fed, enc_res, blk>>

(* convdecode_finish(ce, &total_out_bits, &num_errs) *)
OutDecFinish ==
    /\ pc = "dec_fed"
    /\ \E r \in {convdecode_finish(ce, dec_cb, 0)} :
           /\ ce' = r.ce
           /\ dec_cb' = r.cb
           /\ dec_res' = [rv |-> r.rv, call |-> "finish",
                          total_out_bits |-> r.total_out_bits,
                          num_errs |-> r.num_errs, fault |-> r.fault]
    /\ pc' = "done"
    /\ UNCHANGED <<enc_cb, test, encoded, uncertainty, fed, enc_res, blk>>

NextOut == OutEncData \/ OutEncFinish \/ OutDecData \/ OutDecFinish

SpecOut == InitOut /\ [][NextOut]_vars

(* ---- C26 ---- *)

(* every callback of the log carried 8 bits *)
WholeBytes(log) == \A i \in 1..Len(log) : log[i][2] = 8

(* the log of a finished session of total bits: whole bytes, then the
   remaining bits in one callback if there are any *)
PackedLog(log, total) ==
    /\ Len(log) = (total + 7) \div 8
    /\ \A i \in 1..Len(log) :
           log[i][2] = IF 8 * i <= total THEN 8 ELSE total % 8

(* C26: in packed-byte mode every callback of a session carries 8 bits,
   but the last, which convencode_finish or convdecode_finish makes with
   the 1..7 remaining bits when the number of bits is no multiple of 8;
   the bits of the callbacks, the low bit first, are the coded stream, and
   for the decoder the message *)
C26_PackedOutput ==
    /\ pc = "enc" => WholeBytes(enc_cb.log)
    /\ pc # "enc" =>
           /\ PackedLog(enc_cb.log, CodedLen(test.cfg, Len(test.decoded)))
           /\ LogBits(enc_cb.log) = RefStream(test.cfg, test.decoded)
    /\ pc # "done" => dec_cb.log = <<>>
    /\ pc = "done" =>
           /\ PackedLog(dec_cb.log, Len(test.decoded))
           /\ LogBits(dec_cb.log) = test.decoded

(* nine message bits through a code of nine polynomials without tail: 81
   coded bits in ten whole bytes and one bit, nine decoded bits in one
   whole byte and one bit *)
C26_Witness ==
    /\ pc = "done"
    /\ Len(test.cfg.polynomials) = 9 /\ ~test.cfg.do_tail
    /\ Len(test.decoded) = 9
    /\ Len(enc_cb.log) = 11 /\ enc_cb.log[11][2] = 1
    /\ Len(dec_cb.log) = 2 /\ dec_cb.log[2][2] = 1

(* ---- C28 ---- *)

(* convencode_data on the first n message bits in one call, on a new codec *)
OneEncodeCall(n) ==
    convencode_data(Alloc(test.cfg), NewSink(0),
                    PackBits(SubSeq(test.decoded, 1, n)), n)

(* ... and convencode_finish *)
OneCallSession(r) == convencode_finish(r.ce, r.cb)

(* C28: the message fed in several convencode_data calls, then
   convencode_finish, delivers the coded stream and total_out_bits of the
   message fed in one call *)
C28_EncoderChunking ==
    /\ pc = "enc" =>
           /\ enc_cb = OneEncodeCall(fed).cb
           /\ ce.enc_state = OneEncodeCall(fed).ce.enc_state
           /\ ce.enc_out = OneEncodeCall(fed).ce.enc_out
    /\ pc # "enc" =>
           /\ enc_cb = OneCallSession(OneEncodeCall(Len(test.decoded))).cb
           /\ enc_res.total_out_bits
                  = OneCallSession(OneEncodeCall(Len(test.decoded))).total_out_bits
           /\ enc_res.rv = 0

(* eleven bits in three calls through a code of 16 polynomials *)
C28_Witness ==
    /\ pc = "dec"
    /\ Len(test.decoded) = 11 /\ test.calls = 3
    /\ Len(test.cfg.polynomials) = 16
    /\ enc_res.total_out_bits = CodedLen(test.cfg, 11)

(* ---- C27 ---- *)

(* an encoder session in per-symbol mode, from state 0 on a non-recursive
   codec, in which no callback failed *)
PerSymbolSession ==
    /\ pc \in {"enc", "enc_done"}
    /\ test.per_symbol /\ test.start_state = 0 /\ ~test.cfg.recursive
    /\ enc_cb.fail_at = 0

(* the bits that went into the encoder: the message bits fed, and the tail
   once convencode_finish returned *)
SymbolsDue ==
    IF pc = "enc" THEN fed
    ELSE fed + (IF test.cfg.do_tail THEN test.cfg.k - 1 ELSE 0)

(* the callbacks of the log each carry one whole symbol of the reference
   encoding, in turn *)
SymbolLog(log, np) ==
    /\ Len(log) = SymbolsDue
    /\ \A i \in 1..Len(log) :
           /\ log[i][2] = np
           /\ IntToBits(log[i][1], np)
                  = SubSeq(RefSymbols(test.cfg, test.decoded, SymbolsDue),
                           (i - 1) * np + 1, i * np)

(* C27: in per-symbol mode the callback is invoked once for each input bit
   and once for each tail bit, with nbits = num_polys and the whole symbol,
   and convencode_finish adds no shorter callback *)
C27_PerSymbol ==
    PerSymbolSession => SymbolLog(enc_cb.log, Len(test.cfg.polynomials))

(* the same for the codes of at most 8 polynomials, whose symbols fit into
   the callback's unsigned char *)
PerSymbolUpTo8 ==
    (PerSymbolSession /\ Len(test.cfg.polynomials) <= 8)
        => SymbolLog(enc_cb.log, Len(test.cfg.polynomials))

(* ------------------------------------------------------------------ *)
(* One step of the decoder: add, compare, select.                       *)
(* ------------------------------------------------------------------ *)

(* the symbol the first decode_bits of a call of convdecode_data is handed:
   the bits left over by the call before, as ce->leftover_bits_data holds
   them, below the first bits of the call's own, which are the bits
   `bits` of the stream in stream order; extract_bits takes the first bit
   as the lowest *)
HandedSymbol(c, bits) ==
    IF c.leftover_bits > 0
    THEN BitOr(c.leftover_bits_data,
               Shl(BitsToInt(SubSeq(bits, 1, c.num_polys - c.leftover_bits)),
                   c.leftover_bits))
    ELSE BitsToInt(SubSeq(bits, 1, c.num_polys))

(* the two states a state i can have come from *)
Pstate1(i) == i \div 2

Pstate2(c, i) == Pstate1(i) + (IF Pstate1(i) >= Pow2(c.k - 2) THEN 0 ELSE Pow2(c.k - 2))

(* the distance of the path that enters state i from state p with the
   symbol rcv received, over the distances in the vector curr *)
EnterDist(c, curr, p, i, rcv) ==
    U32Add(curr[p],
           hamming_distance(c, c.convert[get_prev_bit(c, p, i) + 1][p], rcv, NULL))

(* the smaller of two distances *)
U32Min(a, b) == IF U32Lt(b, a) THEN b ELSE a

(* the vector next and the trellis column col are what add-compare-select
   makes of the vector curr and the symbol rcv *)
IsAcsStep(c, curr, next, col, rcv) ==
    \A i \in 0..(c.num_states - 1) :
       /\ next[i] = U32Min(EnterDist(c, curr, Pstate1(i), i, rcv),
                           EnterDist(c, curr, Pstate2(c, i), i, rcv))
       /\ col[i] = IF U32Lt(EnterDist(c, curr, Pstate2(c, i), i, rcv),
                            EnterDist(c, curr, Pstate1(i), i, rcv))
                   THEN Pstate2(c, i)
                   ELSE Pstate1(i)

(* the trellis column c of a decoder, by state *)
TrellisColumn(c, column) ==
    [i \in 0..(c.num_states - 1) |-> c.trellis[trellis_entry(c, column, i)]]

(* a call of convdecode_data that completes one symbol, with room for it in
   the trellis, and returns *)
OneSymbolStep ==
    /\ fed' > fed /\ pc' = "dec"
    /\ dec_res'.symbols = 1
    /\ ce.ctrellis + ce.num_polys <= ce.trellis_size

(* C30: a symbol that decode_bits accepts sets next[i], for every state i,
   to the smaller of curr[p1] + dist(convert[b1][p1], rcv) and
   curr[p2] + dist(convert[b2][p2], rcv), with p1 = i >> 1 and
   p2 = p1 | (1 << (k-2)); trellis[ctrellis][i] is the predecessor with the
   smaller sum, p1 when the sums are equal; ctrellis grows by exactly 1 and
   the two vectors change places: curr is the new vector, next the old
   one *)
C30_AddCompareSelect ==
    [][OneSymbolStep =>
         /\ ce'.ctrellis = ce.ctrellis + 1
         /\ IsAcsStep(ce, ce.curr_path_values, ce'.curr_path_values,
                      TrellisColumn(ce', ce.ctrellis),
                      HandedSymbol(ce, SubSeq(encoded, fed + 1, fed')))
         /\ ce'.next_path_values = ce.curr_path_values
         /\ \A idx \in DOMAIN ce.trellis :
              (\A i \in 0..(ce.num_states - 1) :
                   idx # trellis_entry(ce, ce.ctrellis, i))
                  => ce'.trellis[idx] = ce.trellis[idx]]_vars

(* a one-symbol call has returned: the vector next is the one the step
   started from, and over it, for the symbol the step was handed, some state
   had two equal sums and took p1 while another had the smaller sum over p2
   and took p2 *)
C30_Witness ==
    /\ pc = "dec" /\ fed > 0 /\ dec_res.symbols = 1 /\ dec_res.columns = 1
    /\ ce.ctrellis >= 2
    /\ \E rcv \in 0..(Pow2(ce.num_polys) - 1) :
         /\ IsAcsStep(ce, ce.next_path_values, ce.curr_path_values,
                      TrellisColumn(ce, ce.ctrellis - 1), rcv)
         /\ \E i \in 0..(ce.num_states - 1) :
              /\ EnterDist(ce, ce.next_path_values, Pstate1(i), i, rcv)
                     = EnterDist(ce, ce.next_path_values, Pstate2(ce, i), i, rcv)
              /\ ce.trellis[trellis_entry(ce, ce.ctrellis - 1, i)] = Pstate1(i)
         /\ \E i \in 0..(ce.num_states - 1) :
              /\ U32Lt(EnterDist(ce, ce.next_path_values, Pstate2(ce, i), i, rcv),
                       EnterDist(ce, ce.next_path_values, Pstate1(i), i, rcv))
              /\ ce.trellis[trellis_entry(ce, ce.ctrellis - 1, i)] = Pstate2(ce, i)

(* ------------------------------------------------------------------ *)
(* The tables of setup_convcode2, for every polynomial of k bits.       *)
(* ------------------------------------------------------------------ *)

(* the largest k whose tables are checked *)
MaxTabK == 3

(* the largest number of polynomials of a checked code *)
MaxTabPolys == 2

(* every array of 1..MaxTabPolys polynomials of k bits *)
TabPolynomials(k) ==
    UNION {[1..n -> 0..(Pow2(k) - 1)] : n \in 1..MaxTabPolys}

InitTab ==
    \E k \in 1..MaxTabK, r \in BOOLEAN :
      \E p \in TabPolynomials(k) :
       /\ test = [cfg |-> [k |-> k, polynomials |-> p, do_tail |-> FALSE,
                           recursive |-> r]]
       /\ ce = Uninitialised
       /\ enc_cb = NewSink(0)
       /\ dec_cb = NewSink(0)
       /\ pc = "new"
       /\ encoded = <<>>
       /\ uncertainty = NULL
       /\ fed = 0
       /\ enc_res = NoRes
       /\ dec_res = NoRes
       /\ blk = NoRes

(* alloc_convcode(k, polynomials, num_polynomials, 1, false, recursive,
   ...): setup_convcode1, the allocations, setup_convcode2 *)
TabAlloc ==
    /\ pc = "new"
    /\ \E r \in {alloc_convcode(test.cfg.k, test.cfg.polynomials,
                                Len(test.cfg.polynomials), 1,
                                test.cfg.do_tail, test.cfg.recursive)} :
         /\ r.rv = 0
         /\ ce' = r.ce
         /\ enc_res' = [rv |-> r.rv, call |-> "alloc_convcode"]
    /\ pc' = "tables"
    /\ UNCHANGED <<enc_cb, dec_cb, test, encoded, uncertainty, fed, dec_res, blk>>

NextTab == TabAlloc

SpecTab == InitTab /\ [][NextTab]_vars

(* pstate2 = pstate1 | (1 << (k - 2)) of decode_bits for state i, as the
   convcode_state holds it; with k = 1 the shift count is UINT_MAX and the
   result is what the build leaves, of which the low 16 bits are kept *)
pstate2_outcomes(c, i) ==
    IF c.k >= 2
    THEN {BitOr(i \div 2, Pow2(c.k - 2)) % 65536}
    ELSE {BitOr(i \div 2, g[2]) % 65536 : g \in UndefinedShiftOutcomes}

(* the states decode_bits takes state i to have come from *)
Predecessors(c, i) == {i \div 2} \cup pstate2_outcomes(c, i)

(* the bit the decoder gives the step from p to i is a bit that takes the
   encoder from p to i *)
TransitionAgrees(c, p, i) ==
    /\ p < c.num_states
    /\ c.next_state[get_prev_bit(c, p, i) + 1][p] = i

(* the two input bits take the encoder from p to different states *)
BitsDiverge(c, p) == c.next_state[1][p] # c.next_state[2][p]

(* C31: in the tables of every code that setup accepts, for every state i
   and each of the two states p that decode_bits takes i to have come from,
   p is a state and the bit b that get_prev_bit gives for the step from p
   to i has next_state[b][p] = i; in a recursive code next_state[0][p] and
   next_state[1][p] are different for every state p *)
C31_TrellisTransitions ==
    pc = "tables" =>
        /\ \A i \in 0..(ce.num_states - 1) :
             \A p \in Predecessors(ce, i) : TransitionAgrees(ce, p, i)
        /\ ce.recursive => \A p \in 0..(ce.num_states - 1) : BitsDiverge(ce, p)

(* the input bit is a term of the feedback polynomial: bit k - 1 of the
   polynomial as the caller writes it, which reverse_bits makes the lowest,
   where the register (i << 1) | bit holds the input *)
FeedbackTakesInput(cfg) == (cfg.polynomials[1] \div Pow2(cfg.k - 1)) % 2 = 1

(* the codes for which the tables agree: the non-recursive ones, and the
   recursive ones of k >= 2 with the input bit in the feedback *)
TrellisTransitionsWhenFedBack ==
    (pc = "tables" /\ (ce.recursive => FeedbackTakesInput(test.cfg))) =>
        /\ \A i \in 0..(ce.num_states - 1) :
             \A p \in Predecessors(ce, i) : TransitionAgrees(ce, p, i)
        /\ (ce.recursive /\ ce.k >= 2) =>
               \A p \in 0..(ce.num_states - 1) : BitsDiverge(ce, p)

(* ---- the tables against their definition ---- *)

(* bit j of a value *)
BitOf(v, j) == (v \div Pow2(j)) % 2

(* the parity of the bits that the lowest 17 bits of v and w share *)
SharedParity(v, w) ==
    Cardinality({j \in 0..16 : BitOf(v, j) = 1 /\ BitOf(w, j) = 1}) % 2

(* the k-bit reversal of a polynomial: bit j goes to bit k - 1 - j *)
RECURSIVE Reversal(_, _, _)
Reversal(k, poly, j) ==
    IF j >= k THEN 0
    ELSE BitOf(poly, j) * Pow2(k - 1 - j) + Reversal(k, poly, j + 1)

(* the register of the encoder in state s taking bit b *)
Register(s, b) == 2 * s + b

(* C32: in the tables of a non-recursive code, for every state s and bit b,
   next_state[b][s] is ((s << 1) | b) & (num_states - 1), bit j of
   convert[b][s] is the parity of ((s << 1) | b) AND the k-bit reversal of
   the caller's polynomial j for every j < num_polys, and the bits of
   convert[b][s] from num_polys on are 0 *)
C32_NonRecursiveTables ==
    (pc = "tables" /\ ~ce.recursive) =>
        \A s \in 0..(ce.num_states - 1), b \in 0..1 :
           /\ ce.next_state[b + 1][s] = Register(s, b) % ce.num_states
           /\ \A j \in 0..(ce.num_polys - 1) :
                BitOf(ce.convert[b + 1][s], j)
                    = SharedParity(Register(s, b),
                                   Reversal(ce.k, test.cfg.polynomials[j + 1], 0))
           /\ ce.convert[b + 1][s] < Pow2(ce.num_polys)

(* the tables of the non-recursive code of k = 3 with the polynomials 6 and
   3, which their reversals 3 and 6 tell apart: state 3 with bit 0 gives
   the symbol 1, the register 110 sharing one bit with 011 and two with
   110 *)
C32_Witness ==
    /\ pc = "tables" /\ ~ce.recursive /\ ce.k = 3
    /\ test.cfg.polynomials = <<6, 3>>
    /\ ce.convert[1][3] = 1
    /\ ce.next_state[2][3] = 3

(* the bit a recursive encoder in state s shifts in for the input bit b: the
   parity of the register with the input, under the reversed polynomial 0 *)
FeedbackBit(cfg, s, b) ==
    SharedParity(Register(s, b), Reversal(cfg.k, cfg.polynomials[1], 0))

(* C33: in the tables of a recursive code, for every state s and bit b,
   with f the parity of ((s << 1) | b) AND the reversed polynomial 0,
   next_state[b][s] is ((s << 1) | f) & mask, bit 0 of convert[b][s] is b,
   and bit j of convert[b][s] is the parity of ((s << 1) | f) AND the
   reversed polynomial j for every j from 1 below num_polys *)
C33_RecursiveTables ==
    (pc = "tables" /\ ce.recursive) =>
        \A s \in 0..(ce.num_states - 1), b \in 0..1 :
           /\ ce.next_state[b + 1][s]
                  = Register(s, FeedbackBit(test.cfg, s, b)) % ce.num_states
           /\ BitOf(ce.convert[b + 1][s], 0) = b
           /\ \A j \in 1..(ce.num_polys - 1) :
                BitOf(ce.convert[b + 1][s], j)
                    = SharedParity(Register(s, FeedbackBit(test.cfg, s, b)),
                                   Reversal(ce.k, test.cfg.polynomials[j + 1], 0))

(* the tables of the recursive code of k = 3 with the feedback polynomial 7
   and the output polynomial 5: in state 1 the input 0 shifts in the
   feedback bit 1, the next state is 3 and the symbol is 0 then 1 *)
C33_Witness ==
    /\ pc = "tables" /\ ce.recursive /\ ce.k = 3
    /\ test.cfg.polynomials = <<7, 5>>
    /\ FeedbackBit(test.cfg, 1, 0) = 1
    /\ ce.next_state[1][1] = 3
    /\ ce.convert[1][1] = 2

(* ------------------------------------------------------------------ *)
(* The branch metric, for every pair of symbols and for reliabilities   *)
(* inside and outside their range.                                      *)
(* ------------------------------------------------------------------ *)

(* the largest number of polynomials of a measured code *)
MaxMetricPolys == 3

(* a reliability between the ends of the range *)
MidReliability == 30

(* a reliability beyond uncertainty_100 that a uint8_t holds *)
BeyondReliability == 200

(* the codes whose symbols are measured: k = 3, the first n polynomials *)
MetricCorpus ==
    {[k |-> 3, polynomials |-> SubSeq(<<5, 7, 3, 6, 1>>, 1, n),
      do_tail |-> FALSE, recursive |-> FALSE] : n \in 1..MaxMetricPolys}

(* the reliabilities a caller hands the decoder *)
Reliabilities == {0, MidReliability, 100, BeyondReliability}

InitMeasure ==
    \E cfg \in MetricCorpus, soft \in BOOLEAN :
      \E cand, rcv \in 0..(Pow2(Len(cfg.polynomials)) - 1),
         r \in [0..(Len(cfg.polynomials) - 1) -> Reliabilities] :
       /\ soft \/ \A j \in DOMAIN r : r[j] = 0
       /\ test = [cfg |-> cfg, cand |-> cand, rcv |-> rcv, reliability |-> r]
       /\ ce = Alloc(cfg)
       /\ uncertainty = IF soft THEN Ptr(r) ELSE NULL
       /\ enc_cb = NewSink(0)
       /\ dec_cb = NewSink(0)
       /\ pc = "new"
       /\ encoded = <<>>
       /\ fed = 0
       /\ enc_res = NoRes
       /\ dec_res = NoRes
       /\ blk = NoRes

(* hamming_distance(ce, cand, rcv, uncertainty), as decode_bits calls it *)
Measure ==
    /\ pc = "new"
    /\ dec_res' = [rv |-> 0,
                   dist |-> hamming_distance(ce, test.cand, test.rcv, uncertainty)]
    /\ pc' = "measured"
    /\ UNCHANGED <<ce, enc_cb, dec_cb, test, encoded, uncertainty, fed, enc_res, blk>>

NextMeasure == Measure

SpecMeasure == InitMeasure /\ [][NextMeasure]_vars

(* every reliability is in 0..uncertainty_100 *)
InRange == \A j \in DOMAIN test.reliability : test.reliability[j] <= ce.uncertainty_100

(* the bits of the two symbols that differ, among all the bits they have *)
Differing == {j \in 0..16 : BitOf(test.cand, j) # BitOf(test.rcv, j)}

(* the sum, over the polynomials, of the reliability of a bit that agrees
   and of uncertainty_100 less the reliability of a bit that differs *)
RECURSIVE SoftSum(_)
SoftSum(n) ==
    IF n = 0 THEN 0
    ELSE SoftSum(n - 1)
         + (IF (n - 1) \in Differing
            THEN ce.uncertainty_100 - test.reliability[n - 1]
            ELSE test.reliability[n - 1])

(* C34: without reliabilities the metric is the number of bits in which the
   candidate and the received symbol differ; with reliabilities it is the
   sum over j < num_polys of reliability[j] where bit j agrees and of
   uncertainty_100 - reliability[j] where it differs.  With every
   reliability in 0..uncertainty_100 it is the exact sum, not one wrapped
   around, at least 0 and at most num_polys * uncertainty_100 *)
C34_BranchMetric ==
    pc = "measured" =>
        /\ uncertainty.null => dec_res.dist = U32(Cardinality(Differing))
        /\ (~uncertainty.null /\ InRange) =>
               /\ dec_res.dist = U32(SoftSum(ce.num_polys))
               /\ SoftSum(ce.num_polys) >= 0
               /\ SoftSum(ce.num_polys) <= ce.num_polys * ce.uncertainty_100

(* a symbol of three bits measured against one that differs in its middle
   bit, with the reliabilities 30, 30 and 100 *)
C34_Witness ==
    /\ pc = "measured" /\ ~uncertainty.null /\ InRange
    /\ ce.num_polys = 3
    /\ Differing = {1}
    /\ test.reliability = (0 :> MidReliability @@ 1 :> MidReliability @@ 2 :> 100)
    /\ dec_res.dist = U32(200)

(* a reliability beyond the range makes the differing bit's term negative:
   the sum wraps around below 0 *)
BeyondRangeWraps ==
    (pc = "measured" /\ ~uncertainty.null /\ SoftSum(ce.num_polys) < 0) =>
        dec_res.dist[1] = 65535

(* ------------------------------------------------------------------ *)
(* A decoder that is handed more symbols than its trellis has room for, *)
(* and is finished all the same.                                        *)
(* ------------------------------------------------------------------ *)

InitRej ==
    \E cfg \in ChunkCorpus, n \in 1..MaxCapLen :
       /\ test = [cfg |-> cfg, max_decode_len_bits |-> n, rejected |-> FALSE]
       /\ ce = CapAlloc(cfg, n)
       /\ enc_cb = NewSink(0)
       /\ dec_cb = NewSink(0)
       /\ pc = "dec"
       /\ encoded = Overlong(OverlongSymbols(cfg, n) * Len(cfg.polynomials))
       /\ uncertainty = NULL
       /\ fed = 0
       /\ enc_res = NoRes
       /\ dec_res = NoRes
       /\ blk = [accepted |-> CapAlloc(cfg, n)]

(* the decoder c after the first a symbols only of a call of convdecode_data
   on bits: the symbol that the bits left over in c begin, and a - 1 more *)
AcceptedOnly(c, bits, a) ==
    IF a = 0 THEN c
    ELSE convdecode_data(c,
             PackBits(SubSeq(bits, 1, a * c.num_polys - c.leftover_bits))
                 \o <<0>>,
             a * c.num_polys - c.leftover_bits, NULL).ce

(* convdecode_data(ce, bytes, n, NULL) on the next n bits of the stream;
   blk.accepted is the decoder as the symbols that the call put into the
   trellis leave it, test.rejected whether decode_bits has refused one *)
RejFeed ==
    /\ pc = "dec"
    /\ \E n \in 1..(Len(encoded) - fed) :
         \E r \in {convdecode_data(ce,
                                   PackBits(SubSeq(encoded, fed + 1, fed + n))
                                       \o <<0>>,
                                   n, NULL)} :
           /\ ce' = r.ce
           /\ dec_res' = [rv |-> r.rv,
                          symbols |-> (ce.leftover_bits + n) \div ce.num_polys,
                          columns |-> r.ce.ctrellis - ce.ctrellis]
           /\ blk' = [accepted |->
                         AcceptedOnly(ce, SubSeq(encoded, fed + 1, fed + n),
                                      r.ce.ctrellis - ce.ctrellis)]
           /\ test' = [test EXCEPT !.rejected =
                          @ \/ (ce.leftover_bits + n) \div ce.num_polys
                                   > r.ce.ctrellis - ce.ctrellis]
           /\ fed' = fed + n
           /\ pc' \in AfterStore(ce, r.ce, IF r.rv # 0 THEN "dec_failed" ELSE "dec")
    /\ UNCHANGED <<enc_cb, dec_cb, encoded, uncertainty, enc_res>>

(* convdecode_finish(ce, &total_out_bits, &num_errs), after a call of
   convdecode_data that returned 0 or one that returned an error *)
RejFinish ==
    /\ pc \in {"dec", "dec_failed"}
    /\ \E g \in Indeterminate :
         \E r \in {convdecode_finish(ce, dec_cb, g)} :
           /\ ce' = r.ce
           /\ dec_cb' = r.cb
           /\ dec_res' = FinishResult(r, IF RunsAway(ce) THEN g ELSE 0)
           /\ pc' = IF r.fault THEN "fault"
                    ELSE IF r.rv # 0 THEN "failed" ELSE "finished"
    /\ UNCHANGED <<enc_cb, test, encoded, uncertainty, fed, enc_res, blk>>

NextRej == RejFeed \/ RejFinish

SpecRej == InitRej /\ [][NextRej]_vars

(* two decoders have the same column count, path values and trellis *)
SameColumns(c, d) ==
    /\ c.ctrellis = d.ctrellis
    /\ c.curr_path_values = d.curr_path_values
    /\ c.next_path_values = d.next_path_values
    /\ c.trellis = d.trellis

(* what finishing the decoder c hands back *)
FinishOf(c) == FinishResult(convdecode_finish(c, NewSink(0), 0), 0)

(* C35: a symbol that decode_bits refuses for lack of room (ctrellis +
   num_polys > trellis_size) changes nothing: ctrellis, the two vectors of
   path values and every trellis cell are what the accepted symbols left,
   and convdecode_finish then delivers the decoding of the accepted
   symbols, ctrellis bits less the tail *)
C35_CapacityFrame ==
    /\ (pc \in {"dec", "dec_failed"} /\ fed > 0) => SameColumns(ce, blk.accepted)
    /\ (pc = "finished" /\ test.rejected) =>
           /\ dec_res.rv = 0
           /\ dec_res.total_out_bits
                  = blk.accepted.ctrellis
                        - (IF ce.do_tail THEN ce.k - 1 ELSE 0)
           /\ dec_res.output = FinishOf(blk.accepted).output
           /\ dec_res.num_errs = FinishOf(blk.accepted).num_errs

(* a decoder with room for 6 symbols was handed 15 bits, 7 symbols and a
   bit, kept 6 of them and was finished: 4 bits without the tail *)
C35_Witness ==
    /\ pc = "finished" /\ test.rejected
    /\ test.cfg.polynomials = <<5, 7>> /\ test.cfg.do_tail
    /\ test.max_decode_len_bits = 1
    /\ ce.ctrellis = 6 /\ fed = 15
    /\ Len(dec_res.output) = 4

(* ---- C37 ---- *)

(* the symbols decode_bits takes before it refuses one *)
Capacity(c) == c.trellis_size - c.num_polys + 1

(* the bits that convdecode_finish leaves out: the tail *)
ExtraBits(c) == IF c.do_tail THEN c.k - 1 ELSE 0

(* C37: after calls of convdecode_data that all returned 0 and delivered B
   coded bits in all, ctrellis is B / num_polys rounded down and
   leftover_bits is B mod num_polys, and convdecode_finish then reports
   total_out_bits = ctrellis less the k - 1 bits of the tail, the bits left
   over counting for nothing *)
C37_SymbolAccounting ==
    /\ pc = "dec" =>
           /\ ce.ctrellis = fed \div ce.num_polys
           /\ ce.leftover_bits = fed % ce.num_polys
    /\ (pc = "finished" /\ ~test.rejected) =>
           dec_res.total_out_bits = ce.ctrellis - ExtraBits(ce)

(* the same for the sessions that stay within the capacity of the trellis
   and, with a tail, are not finished before the tail is in *)
AccountingWithinCapacity ==
    /\ (pc = "dec" /\ fed \div ce.num_polys <= Capacity(ce)) =>
           /\ ce.ctrellis = fed \div ce.num_polys
           /\ ce.leftover_bits = fed % ce.num_polys
    /\ (pc = "finished" /\ ~test.rejected) =>
           /\ dec_res.total_out_bits = ce.ctrellis - ExtraBits(ce)
           /\ ce.ctrellis = fed \div ce.num_polys

(* ---- C38 ---- *)

(* the last call was convdecode_finish *)
FinishCalled == "call" \in DOMAIN dec_res /\ dec_res.call = "finish"

(* C38: convdecode_finish comes to an end in every state a decoder can be
   in, having replayed trellis columns below ctrellis only, ctrellis less
   the tail of them; after fewer than k - 1 symbols of a session with a
   tail, none received included, it delivers no bits, as convdecode_block
   does *)
C38_FinishTerminates ==
    FinishCalled =>
        /\ ~dec_res.fault
        /\ dec_res.rv = 0
        /\ Len(dec_res.output)
               = (IF ce.ctrellis < ExtraBits(ce) THEN 0
                  ELSE ce.ctrellis - ExtraBits(ce))

(* the same for the decoders that have their k - 1 tail symbols *)
FinishTerminatesAfterTail ==
    (FinishCalled /\ ~RunsAway(ce)) =>
        /\ ~dec_res.fault
        /\ dec_res.rv = 0
        /\ Len(dec_res.output) = ce.ctrellis - ExtraBits(ce)

(* ------------------------------------------------------------------ *)
(* The path values of a short and of a very long session.               *)
(* ------------------------------------------------------------------ *)

(* the calls of convdecode_data that a session is followed for *)
MaxLongSteps == 3

(* the symbols a long session has decoded: 100 * 42949672 is 96 short of
   2^32 *)
LongSession == 42949672

(* the reliability that tells nothing: uncertainty_100 / 2 *)
EvenReliability(c) == c.uncertainty_100 \div 2

(* the codes of the sessions: two polynomials, k = 3 *)
LongCorpus ==
    {[k |-> 3, polynomials |-> <<5, 7>>, do_tail |-> FALSE, recursive |-> FALSE],
     [k |-> 3, polynomials |-> <<7, 5>>, do_tail |-> FALSE, recursive |-> TRUE]}

(* m * t as an unsigned int, for m < 32768 and t < 2^31 *)
U32Times(m, t) ==
    <<(m * (t \div 65536) + (m * (t % 65536)) \div 65536) % 65536,
      (m * (t % 65536)) % 65536>>

(* the path value of every state after t >= k - 1 symbols whose reliabilities
   were all uncertainty_100 / 2: each branch then costs num_polys times
   that, whatever its bits *)
EvenValue(c, t) == U32Times(EvenReliability(c) * c.num_polys, t)

(* the most symbols for which num_polys * uncertainty_100 a symbol stays
   within UINT_MAX / 2 *)
SafeSymbols(c) == 2147483647 \div (c.num_polys * c.uncertainty_100)

(* the decoder c as t symbols of such reliabilities leave it, t >= k - 1;
   the trellis columns they filled are left out, the session is not traced
   back *)
AfterEven(c, t) ==
    [c EXCEPT !.ctrellis = t,
              !.curr_path_values = [i \in 0..(c.num_states - 1) |-> EvenValue(c, t)],
              !.next_path_values = [i \in 0..(c.num_states - 1) |-> EvenValue(c, t - 1)]]

(* the reliabilities of a call: none, or the same one for each bit *)
LongDoubts(c) ==
    {NULL} \cup {Ptr([j \in 0..(c.num_polys - 1) |-> v]) :
                    v \in {0, EvenReliability(c), c.uncertainty_100}}

(* a decoder with room for twice LongSession symbols, after its default
   reinit or after a number of symbols of even reliabilities *)
InitLong ==
    \E cfg \in LongCorpus :
      \E fresh \in {CapAlloc(cfg, 2 * LongSession + 8)} :
        \E t \in {0, SafeSymbols(fresh) - 2, LongSession} :
         /\ test = [cfg |-> cfg, steps |-> 0, even |-> TRUE]
         /\ ce = IF t = 0 THEN fresh ELSE AfterEven(fresh, t)
         /\ enc_cb = NewSink(0)
         /\ dec_cb = NewSink(0)
         /\ pc = "dec"
         /\ encoded = <<>>
         /\ uncertainty = NULL
         /\ fed = 0
         /\ enc_res = NoRes
         /\ dec_res = NoRes
         /\ blk = NoRes

(* convdecode_data(ce, bytes, num_polys, uncertainty) on one symbol *)
LongStep ==
    /\ pc \in {"dec", "stepped"}
    /\ test.steps < MaxLongSteps
    /\ \E rcv \in 0..(Pow2(ce.num_polys) - 1), rel \in LongDoubts(ce) :
         \E r \in {convdecode_data(ce, <<rcv, 0>>, ce.num_polys, rel)} :
           /\ r.rv = 0
           /\ ce' = r.ce
           /\ dec_res' = [rv |-> r.rv, rcv |-> rcv]
           /\ uncertainty' = rel
           /\ test' = [test EXCEPT
                         !.steps = @ + 1,
                         !.even = @ /\ ~rel.null
                                    /\ Deref(rel, 0) = EvenReliability(ce)]
           /\ pc' \in AfterStore(ce, r.ce, "stepped")
    /\ UNCHANGED <<enc_cb, dec_cb, encoded, fed, enc_res, blk>>

NextLong == LongStep

SpecLong == InitLong /\ [][NextLong]_vars

(* a session of even reliabilities has the path values AfterEven gives *)
EvenSessionValues ==
    (test.even /\ ce.ctrellis >= ce.k - 1) =>
        \A i \in 0..(ce.num_states - 1) :
            ce.curr_path_values[i] = EvenValue(ce, ce.ctrellis)

(* a + b is more than UINT_MAX *)
AddWraps(a, b) == a[1] + b[1] + (a[2] + b[2]) \div 65536 >= 65536

(* the additions curr[p] + dist of the call that has returned: the vector
   next is the vector curr the call started from *)
StepAdds ==
    UNION {{<<ce.next_path_values[p],
              hamming_distance(ce, ce.convert[get_prev_bit(ce, p, i) + 1][p],
                               dec_res.rcv, uncertainty)>> :
               p \in {Pstate1(i), Pstate2(ce, i)}} :
           i \in 0..(ce.num_states - 1)}

(* the states the encoder can be in t symbols after state 0 *)
RECURSIVE ReachedIn(_, _)
ReachedIn(c, t) ==
    IF t = 0 THEN {CONVCODE_DEFAULT_START_STATE}
    ELSE {c.next_state[b][p] : b \in 1..2, p \in ReachedIn(c, t - 1)}

(* the states reached by now; after k - 1 symbols every state is *)
Reached == ReachedIn(ce, IF ce.ctrellis > ce.k - 1 THEN ce.k - 1 ELSE ce.ctrellis)

(* no state that is not reached has a smaller path value than one that is *)
UnreachedNotSmaller ==
    \A u \in (0..(ce.num_states - 1)) \ Reached, r \in Reached :
        ~U32Lt(ce.curr_path_values[u], ce.curr_path_values[r])

(* C36: after the default reinit and with reliabilities in
   0..uncertainty_100, no addition curr[p] + dist of decode_bits is more
   than UINT_MAX, for any number of symbols that the trellis has room for,
   and a state not yet reached from the start state never has a smaller
   path value than a state that is reached *)
C36_NoWrap ==
    /\ pc = "stepped" => \A s \in StepAdds : ~AddWraps(s[1], s[2])
    /\ UnreachedNotSmaller

(* the same for the sessions of at most SafeSymbols symbols: as long as the
   number of symbols times num_polys * uncertainty_100 is not more than
   UINT_MAX / 2 *)
NoWrapWithinHalf ==
    ce.ctrellis <= SafeSymbols(ce) =>
        /\ pc = "stepped" => \A s \in StepAdds : ~AddWraps(s[1], s[2])
        /\ UnreachedNotSmaller

(* the first symbol of a session has been decoded, with reliabilities: two
   states are reached and two are not, and these have the larger values *)
FirstSymbolUnreached ==
    /\ pc = "stepped" /\ ce.ctrellis = 1 /\ ~uncertainty.null
    /\ Cardinality(Reached) = 2
    /\ \E u \in (0..(ce.num_states - 1)) \ Reached :
          U32Lt(CONVCODE_DEFAULT_INIT_VAL, ce.curr_path_values[u])

(* ------------------------------------------------------------------ *)
(* The encoder state as a shift register of the bits fed to encode_bit. *)
(* ------------------------------------------------------------------ *)

RECURSIVE Joined(_)
Joined(calls) == IF calls = <<>> THEN <<>> ELSE Head(calls) \o Joined(Tail(calls))

(* the start state as the k - 1 bits it stands for, the oldest first *)
StartBits(cfg, s) == [i \in 1..(cfg.k - 1) |-> (s \div Pow2(cfg.k - 1 - i)) % 2]

(* the tail bits convencode_finish and convencode_block feed *)
TailBits(cfg) == [i \in 1..(IF cfg.do_tail THEN cfg.k - 1 ELSE 0) |-> 0]

(* the bits encode_bit may have been given in the session of t when the
   codec is at position p after the call named last: all of them after a
   call that returned 0, and after a call the callback ended, the calls
   before it and at least one bit of the failing call's *)
FedBits(t, p, last) ==
    LET all == Joined(t.calls)
        done == IF t.calls = <<>> THEN <<>>
                ELSE Joined(SubSeq(t.calls, 1, Len(t.calls) - 1))
    IN  IF p = "open" THEN {all}
        ELSE IF p = "finished" THEN {all \o TailBits(t.cfg)}
        ELSE IF last = "finish"
             THEN {all \o [i \in 1..j |-> 0] : j \in 1..(t.cfg.k - 1)}
             ELSE {done \o SubSeq(t.calls[Len(t.calls)], 1, j) :
                       j \in 1..Len(t.calls[Len(t.calls)])}

(* the register holds the last k - 1 of the bits m fed after the start
   state, the newest in the low bit *)
HoldsLastBits(t, state, m) ==
    /\ state = LastBitsState(t.cfg, StartBits(t.cfg, t.start_state) \o m)
    /\ Len(m) >= t.cfg.k - 1 => state = LastBitsState(t.cfg, m)

EncoderRegister(t) ==
    /\ ce.enc_state \in 0..(ce.num_states - 1)
    /\ \E m \in FedBits(t, pc, enc_res.call) : HoldsLastBits(t, ce.enc_state, m)

EncCalled == enc_res # NoRes /\ "call" \in DOMAIN enc_res

(* C39 as stated: after reinit_convencode(s) with s < num_states and any
   sequence of encode operations, enc_state is in 0..num_states - 1 and,
   once k - 1 bits have been fed, it is the last k - 1 bits fed with the
   newest bit in the low bit, on every codec *)
EncoderStateAnyCodec == EncCalled => EncoderRegister(test)

(* C39: on a non-recursive codec, after reinit_convencode(s) with
   s < num_states and any sequence of convencode_data, convencode_finish
   and convencode_block calls, enc_state is in 0..num_states - 1 and is
   the last k - 1 bits given to encode_bit (tail bits included) after the
   bits of s, the newest in the low bit; on every codec enc_state is in
   0..num_states - 1 *)
C39_EncoderState ==
    EncCalled =>
        /\ ce.enc_state \in 0..(ce.num_states - 1)
        /\ ~test.cfg.recursive => EncoderRegister(test)

(* a session reopened from state 2 has been fed 0 1 and then nine bits
   ending in 0 1, and holds 0 1 *)
C39_Witness ==
    /\ pc = "open" /\ EncCalled /\ enc_res.call = "data"
    /\ ~test.cfg.recursive
    /\ test.start_state = 2
    /\ test.calls = <<<<0, 1>>, <<1, 0, 1, 1, 0, 1, 0, 0, 1>>>>
    /\ ce.enc_state = 1

(* ------------------------------------------------------------------ *)
(* Calls on one interleaver over a buffer that is not zeroed:           *)
(* interleave_bit and deinterleave_bit in any order, at most total_bits *)
(* of them, and interleave() on the same buffer.                        *)
(* ------------------------------------------------------------------ *)

(* bound: the most bits of the buffer (total_bits) *)
MaxFrameBits == 9

(* bound: the widest interleave *)
MaxFrameInterleave == 4

(* a buffer of n bits as malloc and the caller's stores leave it: no bit
   set, every second bit set, or every bit set, and the bits of the last
   byte above n either clear or set *)
FrameBuffers(n) ==
    {[b \in 1..((n \div 8) + 1) |->
         BitsToInt([j \in 1..8 |->
             IF 8 * (b - 1) + j <= n THEN x[8 * (b - 1) + j] ELSE pad])] :
       x \in {[i \in 1..n |-> 0], [i \in 1..n |-> i % 2], [i \in 1..n |-> 1]},
       pad \in 0..1}

InitFrame ==
    \E len \in 1..MaxFrameBits, interleave_len \in 1..MaxFrameInterleave :
      \E data \in FrameBuffers(len) :
       /\ test = [len |-> len, interleave_len |-> interleave_len, data |-> data]
       /\ blk = [di |-> interleaver_init(interleave_len, data, len),
                 before |-> Uninitialised, call |-> "init", v |-> Unset,
                 rv |-> Unset]
       /\ fed = 0
       /\ pc = "run"
       /\ encoded = <<>>
       /\ ce = Uninitialised
       /\ enc_cb = NewSink(0)
       /\ dec_cb = NewSink(0)
       /\ uncertainty = NULL
       /\ enc_res = NoRes
       /\ dec_res = NoRes

(* deinterleave_bit(&di, v) *)
FrameDeinterleaveBit ==
    /\ pc = "run" /\ fed < test.len
    /\ \E v \in 0..1 :
         blk' = [di |-> deinterleave_bit(blk.di, v), before |-> blk.di,
                 call |-> "deinterleave_bit", v |-> v, rv |-> Unset]
    /\ fed' = fed + 1
    /\ UNCHANGED <<ce, enc_cb, dec_cb, pc, test, encoded, uncertainty,
                   enc_res, dec_res>>

(* interleave_bit(&di) *)
FrameInterleaveBit ==
    /\ pc = "run" /\ fed < test.len
    /\ \E r \in {interleave_bit(blk.di)} :
         blk' = [di |-> r.di, before |-> blk.di, call |-> "interleave_bit",
                 v |-> Unset, rv |-> r.rv]
    /\ fed' = fed + 1
    /\ UNCHANGED <<ce, enc_cb, dec_cb, pc, test, encoded, uncertainty,
                   enc_res, dec_res>>

(* interleave(interleave_len, di.data, len, out_bit, NULL) on the buffer
   as it is: the function has an interleaver of its own, and its only
   access to the buffer is the read of data[byte] *)
FrameInterleave ==
    /\ pc = "run"
    /\ blk.call # "interleave"
    /\ blk' = [blk EXCEPT !.before = blk.di, !.call = "interleave",
                          !.v = Unset, !.rv = Unset]
    /\ encoded' = interleave(test.interleave_len, blk.di.data, test.len)
    /\ UNCHANGED <<ce, enc_cb, dec_cb, pc, test, uncertainty, fed,
                   enc_res, dec_res>>

NextFrame == FrameDeinterleaveBit \/ FrameInterleaveBit \/ FrameInterleave

SpecFrame == InitFrame /\ [][NextFrame]_vars

(* bit p of the buffer *)
DataBit(data, p) == Shr(data[(p \div 8) + 1], p % 8) % 2

(* the number of positions of the buffer that come before p in the
   interleaved order *)
Rank(p) ==
    Cardinality({q \in 0..(test.len - 1) : ColumnFirst(q, p, test.interleave_len)})

(* the cursor was at the position of the call number fed, and while calls
   are left it is at the next position of the interleaved order *)
OneStep ==
    /\ interleaver_bitpos(blk.before) \in 0..(test.len - 1)
    /\ Rank(interleaver_bitpos(blk.before)) = fed - 1
    /\ fed < test.len =>
           /\ interleaver_bitpos(blk.di) \in 0..(test.len - 1)
           /\ Rank(interleaver_bitpos(blk.di)) = fed
    /\ blk.di.interleave = blk.before.interleave
    /\ blk.di.total_bits = blk.before.total_bits

(* C40: deinterleave_bit(di, v) with a bit v leaves every bit of data as
   it was but the one at the cursor, which becomes the OR of its old value
   and v, so that no bit is cleared and v = 0 changes nothing;
   interleave_bit returns the bit at the cursor and leaves data as it was,
   and so does interleave(), which leaves the interleaver alone as well;
   interleave_bit and deinterleave_bit move the cursor to the next position
   of the interleaved order *)
C40_FrameConditions ==
    /\ blk.call = "deinterleave_bit" =>
         /\ Len(blk.di.data) = Len(blk.before.data)
         /\ \A p \in 0..(8 * Len(blk.before.data) - 1) :
                DataBit(blk.di.data, p)
                    = IF p = interleaver_bitpos(blk.before)
                      THEN (IF blk.v = 1 THEN 1 ELSE DataBit(blk.before.data, p))
                      ELSE DataBit(blk.before.data, p)
         /\ blk.v = 0 => blk.di.data = blk.before.data
         /\ OneStep
    /\ blk.call = "interleave_bit" =>
         /\ blk.di.data = blk.before.data
         /\ blk.rv = DataBit(blk.before.data, interleaver_bitpos(blk.before))
         /\ OneStep
    /\ blk.call = "interleave" =>
         /\ blk.di = blk.before
         /\ Len(encoded) = test.len

(* deinterleave_bit(di, 1) at position 3 of a buffer of nine bits in rows
   of three, every second bit set and the bits above the ninth set: bit 3
   is set now and the others are as they were *)
C40_Witness ==
    /\ blk.call = "deinterleave_bit" /\ blk.v = 1
    /\ test.len = 9 /\ test.interleave_len = 3
    /\ fed = 2
    /\ interleaver_bitpos(blk.before) = 3
    /\ blk.before.data = <<85, 255>>
    /\ blk.di.data = <<93, 255>>
====
